---- MODULE Spec2Model ----
(***************************************************************************)
(* LinearMap (src/src/lib.rs): a map kept as a vector of (key, value)      *)
(* pairs and searched linearly.                                            *)
(*                                                                         *)
(* A key is a record [id, tag]: `id` is what the key type's Eq compares,   *)
(* `tag` is state of the key object that Eq does not observe, so that two  *)
(* keys can be == without being identical.  The borrowed form Q of a key   *)
(* (the argument of get / get_mut / contains_key / remove) is its id.      *)
(*                                                                         *)
(* storage is a sequence; storage index i of the Rust code is position     *)
(* i + 1 of the sequence.  Option<T> is a sequence of length 0 or 1.       *)
(***************************************************************************)
EXTENDS Integers, Sequences, FiniteSets, TLC

\* ------------------------------------------------------------ bounds --
\* Longest storage the model lets insert grow.
MaxLen == 3
\* Longest plain Vec<(K, V)> handed to From<Vec<(K, V)>>.
MaxVec == 2
\* Drain handles the iteration runs follow a map through.
MaxDrains == 2
\* Read-only iterators held at the same time, besides the one followed.
MaxReaders == 2
\* The largest number of additional elements a reserve asks for.
MaxAdditional == 2

KeyIds == {1, 2, 3}
Tags == {"a", "b"}
Vals == {1, 2}

Keys == [id : KeyIds, tag : Tags]
Pairs == [k : Keys, v : Vals]

None == << >>
Some(x) == << x >>

\* K: Eq -- the key type's equality relation.
KeyEq(a, b) == a.id = b.id
\* K: Borrow<Q>
Borrow(key) == key.id

\* Pairs whose keys all carry the same tag: enough for the operations that
\* never compare two equal keys' objects (retain, iteration, ==).
SmallKeys == { key \in Keys : key.tag = "a" }
SmallPairs == [k : SmallKeys, v : Vals]

RECURSIVE SmallVecsUpTo(_)
SmallVecsUpTo(n) ==
    IF n = 0 THEN { << >> }
    ELSE LET shorter == SmallVecsUpTo(n - 1)
         IN  shorter \cup { Append(s, p) : s \in { t \in shorter : Len(t) = n - 1 }, p \in SmallPairs }

\* Two keys are enough to tell two maps apart by order, by a value, by a
\* key and by a repeated key.
EqIds == {1, 2}
EqKeys == { key \in SmallKeys : key.id \in EqIds }
EqPairs == [k : EqKeys, v : Vals]

RECURSIVE EqVecsUpTo(_)
EqVecsUpTo(n) ==
    IF n = 0 THEN { << >> }
    ELSE LET shorter == EqVecsUpTo(n - 1)
         IN  shorter \cup { Append(s, p) : s \in { t \in shorter : Len(t) = n - 1 }, p \in EqPairs }

\* All vectors of elements (keys) of length at most n.
RECURSIVE KeyVecsUpTo(_)
KeyVecsUpTo(n) ==
    IF n = 0 THEN { << >> }
    ELSE LET shorter == KeyVecsUpTo(n - 1)
         IN  shorter \cup { Append(s, x) : s \in { t \in shorter : Len(t) = n - 1 }, x \in SmallKeys }

\* All vectors of pairs of length at most n.
RECURSIVE VecsUpTo(_)
VecsUpTo(n) ==
    IF n = 0 THEN { << >> }
    ELSE LET shorter == VecsUpTo(n - 1)
         IN  shorter \cup { Append(s, p) : s \in { t \in shorter : Len(t) = n - 1 }, p \in Pairs }

\* ------------------------------------------------------------- state --
VARIABLES
    storage,   \* LinearMap::storage
    entry,     \* the live Entry handle, NoEntry when there is none
    call,      \* the call that produced this state: [op, key, q, value], with
               \* the fields its operation takes (key: K, q: &Q, value: V)
    ret,       \* what it returned, as an Option
    idx,       \* the storage position it found (0 when it found none)
    prev,      \* storage as it was when the operation was called
    present,   \* ids inserted and not since removed (the logical key set)
    iter,      \* the live iterator or drain handle, NoIter when there is none
    otherMap,  \* a second map's storage (the right-hand side of ==)
    capacity,  \* LinearMap::capacity(): the capacity of the storage vector
    view,      \* the live LinearBorrowedMap over the pairs, NoView when
               \* none; keys are the keys it was made over
    readers,   \* the number of further live read-only iterators (&self
               \* borrows of the map) besides iter
    order      \* the stored ids in the order of their first insertion; any
               \* change of the storage other than an insert makes the
               \* order it leaves the starting point

vars == << storage, entry, call, ret, idx, prev, present, iter, otherMap,
           capacity, view, order, readers >>

NoEntry == [kind |-> "None"]

\* drains counts the drain handles dropped so far.
NoIter == [kind |-> "None", drains |-> 0]

NoView == [kind |-> "None"]

\* ------------------------------------------------------ Vec helpers --
\* The larger of two numbers.
Max(a, b) == IF a > b THEN a ELSE b

\* RawVec::grow_amortized: the capacity after growing to hold required
\* elements, at least double the old one and at least the 4 elements a
\* first allocation of small elements gets.
GrowAmortized(cap, required) == Max(4, Max(2 * cap, required))

\* Mutant of VecReserve: room for additional elements in all, not on top
\* of the len stored.
ReserveIgnoresLen(cap, len, additional) == Max(cap, additional)

\* Vec::reserve(additional) on a vector of len elements: the capacity after.
VecReserve(cap, len, additional) ==
    IF cap - len >= additional THEN cap
    ELSE GrowAmortized(cap, len + additional)

\* Vec::reserve_exact(additional): the capacity after.
VecReserveExact(cap, len, additional) ==
    IF cap - len >= additional THEN cap
    ELSE len + additional

\* Vec::push on a vector of len elements: the capacity after (the vector
\* grows only when it is full).
VecPush(cap, len) == IF len = cap THEN GrowAmortized(cap, len + 1) ELSE cap

\* The capacity after an operation took the vector from before to after:
\* a push if it grew by one, otherwise no allocation.
CapacityAfter(cap, before, after) ==
    IF Len(after) > Len(before) THEN VecPush(cap, Len(before)) ELSE cap

\* slice::swap
Swap(s, i, j) == [s EXCEPT ![i] = s[j], ![j] = s[i]]

\* Vec::pop (the vector that is left)
Pop(s) == SubSeq(s, 1, Len(s) - 1)

\* Mutant of SwapRemove: the order-preserving Vec::remove(i), which shifts
\* every later pair down by one.
ShiftRemove(s, i) == SubSeq(s, 1, i - 1) \o SubSeq(s, i + 1, Len(s))

\* Vec::swap_remove(i): the vector that is left.
SwapRemove(s, i) == Pop(Swap(s, i, Len(s)))

\* --------------------------------------------------------- LinearMap --
\* LinearMap::new
New == << >>

\* impl From<Vec<(K, V)>> for LinearMap<K, V>
FromVec(other) == other

\* self.storage.iter().position(|&(ref k, _)| key == *k)
RECURSIVE PositionFrom(_, _, _)
PositionFrom(s, i, key) ==
    IF i > Len(s) THEN None
    ELSE IF KeyEq(key, s[i].k) THEN Some(i)
    ELSE PositionFrom(s, i + 1, key)

\* Mutant of Position: the scan starts one element late.
PositionSkipsFirst(s, key) == PositionFrom(s, 2, key)

\* Mutant of Position: rposition, the scan runs back to front.
RECURSIVE PositionBack(_, _, _)
PositionBack(s, i, key) ==
    IF i < 1 THEN None
    ELSE IF KeyEq(key, s[i].k) THEN Some(i)
    ELSE PositionBack(s, i - 1, key)

PositionLast(s, key) == PositionBack(s, Len(s), key)

Position(s, key) == PositionFrom(s, 1, key)

\* Mutant of Entry: an occupied handle gets the index of the last slot.
EntryIndexOfLast(s, key) ==
    LET p == Position(s, key)
    IN  IF p = None
        THEN [kind |-> "Vacant", key |-> key]
        ELSE [kind |-> "Occupied", index |-> Len(s)]

\* LinearMap::entry
Entry(s, key) ==
    LET p == Position(s, key)
    IN  IF p = None
        THEN [kind |-> "Vacant", key |-> key]
        ELSE [kind |-> "Occupied", index |-> p[1]]

\* Mutant of OccupiedGet: the last slot (as VacantEntry::insert reads it)
\* instead of the handle's.
OccupiedGetLast(s, e) == s[Len(s)].v

\* OccupiedEntry::get / get_mut / into_mut: the value slot the handle designates
OccupiedGet(s, e) == s[e.index].v

\* Mutant of OccupiedInsert: the new value is returned, not the displaced one.
OccupiedInsertReturnsNew(s, e, value) ==
    [storage |-> [s EXCEPT ![e.index].v = value], ret |-> value]

\* OccupiedEntry::insert: mem::replace(self.get_mut(), value)
OccupiedInsert(s, e, value) ==
    [storage |-> [s EXCEPT ![e.index].v = value], ret |-> OccupiedGet(s, e)]

\* OccupiedEntry::remove
OccupiedRemove(s, e) ==
    [storage |-> SwapRemove(s, e.index), ret |-> s[e.index].v]

\* Mutant of VacantInsert: the pair is put in front (Vec::insert(0, ..)).
VacantInsertFront(s, e, value) == << [k |-> e.key, v |-> value] >> \o s

\* VacantEntry::insert
VacantInsert(s, e, value) == Append(s, [k |-> e.key, v |-> value])

\* Entry::or_insert: the map that is left and the position of the value the
\* returned &mut V designates.
OrInsert(s, e, default) ==
    IF e.kind = "Occupied"
    THEN [storage |-> s, slot |-> e.index]
    ELSE [storage |-> VacantInsert(s, e, default), slot |-> Len(s) + 1]

\* Mutant of OrInsertWith: the callback is run before the match, as in
\* or_insert(default()).
OrInsertWithEager(s, e, fv) ==
    IF e.kind = "Occupied"
    THEN [storage |-> s, slot |-> e.index, fcalls |-> 1]
    ELSE [storage |-> VacantInsert(s, e, fv), slot |-> Len(s) + 1, fcalls |-> 1]

\* Entry::or_insert_with: default is a FnOnce() -> V that returns fv when it
\* is run; fcalls counts how often this call runs it.
OrInsertWith(s, e, fv) ==
    IF e.kind = "Occupied"
    THEN [storage |-> s, slot |-> e.index, fcalls |-> 0]
    ELSE [storage |-> VacantInsert(s, e, fv), slot |-> Len(s) + 1, fcalls |-> 1]

\* Mutant of InsertFn: an occupied slot gets the new key object too.
InsertReplacesKey(s, key, value) ==
    LET e == Entry(s, key)
    IN  IF e.kind = "Occupied"
        THEN [storage |-> [s EXCEPT ![e.index] = [k |-> key, v |-> value]],
              ret |-> Some(OccupiedGet(s, e)),
              idx |-> e.index]
        ELSE [storage |-> VacantInsert(s, e, value), ret |-> None, idx |-> 0]

\* Mutant of InsertFn: a key already stored is taken out and pushed again.
InsertMovesToEnd(s, key, value) ==
    LET e == Entry(s, key)
    IN  IF e.kind = "Occupied"
        THEN [storage |-> Append(ShiftRemove(s, e.index),
                                 [k |-> s[e.index].k, v |-> value]),
              ret |-> Some(OccupiedGet(s, e)),
              idx |-> e.index]
        ELSE [storage |-> VacantInsert(s, e, value), ret |-> None, idx |-> 0]

\* LinearMap::insert
InsertFn(s, key, value) ==
    LET e == Entry(s, key)
    IN  IF e.kind = "Occupied"
        THEN [storage |-> OccupiedInsert(s, e, value).storage,
              ret |-> Some(OccupiedInsert(s, e, value).ret),
              idx |-> e.index]
        ELSE [storage |-> VacantInsert(s, e, value), ret |-> None, idx |-> 0]

\* LinearMap::get: for (k, v) in self { if key == k.borrow() { return Some(v) } } None
RECURSIVE GetFrom(_, _, _)
GetFrom(s, i, q) ==
    IF i > Len(s) THEN None
    ELSE IF q = Borrow(s[i].k) THEN Some(s[i].v)
    ELSE GetFrom(s, i + 1, q)

\* Mutant of Get: the scan runs back to front.
RECURSIVE GetBack(_, _, _)
GetBack(s, i, q) ==
    IF i < 1 THEN None
    ELSE IF q = Borrow(s[i].k) THEN Some(s[i].v)
    ELSE GetBack(s, i - 1, q)

GetLast(s, q) == GetBack(s, Len(s), q)

Get(s, q) == GetFrom(s, 1, q)

\* LinearMap::get_mut: the position of the value the returned &mut V designates
RECURSIVE GetMutFrom(_, _, _)
GetMutFrom(s, i, q) ==
    IF i > Len(s) THEN None
    ELSE IF q = Borrow(s[i].k) THEN Some(i)
    ELSE GetMutFrom(s, i + 1, q)

GetMut(s, q) == GetMutFrom(s, 1, q)

\* LinearMap::contains_key
ContainsKey(s, q) == Get(s, q) # None

\* LinearMap::remove: for i in 0..len { if storage[i].0.borrow() == key { return Some(swap_remove(i).1) } } None
RECURSIVE RemoveFrom(_, _, _)
RemoveFrom(s, i, q) ==
    IF i > Len(s) THEN [storage |-> s, ret |-> None, idx |-> 0]
    ELSE IF Borrow(s[i].k) = q
         THEN [storage |-> SwapRemove(s, i), ret |-> Some(s[i].v), idx |-> i]
    ELSE RemoveFrom(s, i + 1, q)

\* Mutant of RemoveFn: the scan stops one element early (0..len - 1).
RemoveSkipsLast(s, q) ==
    LET r == RemoveFrom(s, 1, q)
    IN  IF r.idx = Len(s) THEN [storage |-> s, ret |-> None, idx |-> 0] ELSE r

\* Mutant of RemoveFn: the found value is returned, but the vector is
\* shortened by pop() without the swap.
RemovePopsLast(s, q) ==
    LET r == RemoveFrom(s, 1, q)
    IN  IF r.ret = None THEN r
        ELSE [storage |-> SubSeq(s, 1, Len(s) - 1), ret |-> r.ret, idx |-> r.idx]

RemoveFn(s, q) == RemoveFrom(s, 1, q)

\* Vec::truncate
Truncate(s, n) == SubSeq(s, 1, n)

\* What keep_fn does on its calls: ds[i] is for the call made at loop index
\* i, with keep the bool it returns and v the value it leaves behind the
\* &mut V (the old value when it does not write).
Decisions == [keep : BOOLEAN, v : Vals]

\* LinearMap::retain, the loop: for i in 0..v.len() { .. }.  calls logs each
\* call of keep_fn: the loop index and the pair it was handed.
RECURSIVE RetainLoop(_, _, _, _, _)
RetainLoop(v, i, del, ds, calls) ==
    IF i > Len(v) THEN [v |-> v, del |-> del, calls |-> calls]
    ELSE LET w == [v EXCEPT ![i].v = ds[i].v]
             log == Append(calls, [pos |-> i, pair |-> v[i]])
         IN  IF ~ds[i].keep THEN RetainLoop(w, i + 1, del + 1, ds, log)
             ELSE IF del > 0 THEN RetainLoop(Swap(w, i - del, i), i + 1, del, ds, log)
             ELSE RetainLoop(w, i + 1, del, ds, log)

\* Mutant of RetainFn: the kept pairs are not moved down over the holes.
RECURSIVE RetainLoopNoSwap(_, _, _, _, _)
RetainLoopNoSwap(v, i, del, ds, calls) ==
    IF i > Len(v) THEN [v |-> v, del |-> del, calls |-> calls]
    ELSE LET w == [v EXCEPT ![i].v = ds[i].v]
             log == Append(calls, [pos |-> i, pair |-> v[i]])
         IN  IF ~ds[i].keep THEN RetainLoopNoSwap(w, i + 1, del + 1, ds, log)
             ELSE RetainLoopNoSwap(w, i + 1, del, ds, log)

RetainNoSwap(s, ds) ==
    LET r == RetainLoopNoSwap(s, 1, 0, ds, << >>)
    IN  [storage |-> IF r.del > 0 THEN Truncate(r.v, Len(s) - r.del) ELSE r.v,
         calls |-> r.calls,
         events |-> << >>]

\* Mutant of RetainFn: truncate(del) instead of truncate(len - del).
RetainTruncatesToDel(s, ds) ==
    LET r == RetainLoop(s, 1, 0, ds, << >>)
    IN  [storage |-> IF r.del > 0 THEN Truncate(r.v, r.del) ELSE r.v,
         calls |-> r.calls,
         events |-> << >>]

\* Vec::truncate: the pairs it drops, the tail behind the first n, front to
\* back.
Truncated(s, n) == SubSeq(s, n + 1, Len(s))

\* What a run of retain does to the pairs, in time order: the loop calls
\* keep_fn and swaps, and drops nothing; the truncate after it drops the
\* tail.
RetainEvents(calls, dropped) ==
    [k \in 1..Len(calls) |-> [ev |-> "call", pos |-> calls[k].pos, pair |-> calls[k].pair]]
    \o [k \in 1..Len(dropped) |-> [ev |-> "drop", pos |-> 0, pair |-> dropped[k]]]

\* Mutant of RetainFn: a rejected pair is taken out by swap_remove, and the
\* pair moved into its place is passed over.
RECURSIVE RetainBackfillLoop(_, _, _, _)
RetainBackfillLoop(v, i, ds, calls) ==
    IF i > Len(v) THEN [v |-> v, calls |-> calls]
    ELSE LET w == [v EXCEPT ![i].v = ds[i].v]
             log == Append(calls, [pos |-> i, pair |-> v[i]])
         IN  IF ~ds[i].keep
             THEN RetainBackfillLoop(Swap(w, i, Len(v)), i + 1, ds, log)
             ELSE RetainBackfillLoop(w, i + 1, ds, log)

RetainBackfill(s, ds) ==
    LET r == RetainBackfillLoop(s, 1, ds, << >>)
    IN  [storage |-> RetainLoop(s, 1, 0, ds, << >>).v,
         calls |-> r.calls,
         events |-> RetainEvents(r.calls, << >>)]

\* Mutant of RetainFn: a rejected pair is dropped as soon as keep_fn has
\* returned false on it.
RECURSIVE DropAtOnceEvents(_, _, _)
DropAtOnceEvents(s, ds, i) ==
    IF i > Len(s) THEN << >>
    ELSE << [ev |-> "call", pos |-> i, pair |-> s[i]] >>
         \o (IF ds[i].keep THEN << >>
             ELSE << [ev |-> "drop", pos |-> 0, pair |-> [k |-> s[i].k, v |-> ds[i].v]] >>)
         \o DropAtOnceEvents(s, ds, i + 1)

RetainDropsAtOnce(s, ds) ==
    LET r == RetainLoop(s, 1, 0, ds, << >>)
    IN  [storage |-> IF r.del > 0 THEN Truncate(r.v, Len(s) - r.del) ELSE r.v,
         calls |-> r.calls,
         events |-> DropAtOnceEvents(s, ds, 1)]

\* LinearMap::retain
RetainFn(s, ds) ==
    LET r == RetainLoop(s, 1, 0, ds, << >>)
        dropped == IF r.del > 0 THEN Truncated(r.v, Len(s) - r.del) ELSE << >>
    IN  [storage |-> IF r.del > 0 THEN Truncate(r.v, Len(s) - r.del) ELSE r.v,
         calls |-> r.calls,
         events |-> RetainEvents(r.calls, dropped)]

\* LinearMap::len
LenOf(s) == Len(s)

\* LinearMap::as_slice: &self.storage
AsSlice(s) == s

\* PartialEq for LinearMap: the loop over self's pairs from position i.
RECURSIVE EqLoop(_, _, _)
EqLoop(s, other, i) ==
    IF i > Len(s) THEN TRUE
    ELSE IF Get(other, Borrow(s[i].k)) # Some(s[i].v) THEN FALSE
    ELSE EqLoop(s, other, i + 1)

\* PartialEq for LinearMap: eq
EqFn(s, other) ==
    IF LenOf(s) # LenOf(other) THEN FALSE
    ELSE EqLoop(s, other, 1)

\* Mutant of IndexFn: an absent key gives no value and no panic.
IndexNoPanic(s, q) ==
    [panic |-> FALSE, msg |-> "", ret |-> Get(s, q)]

\* ops::Index::index: self.get(key).expect("key not found").  ret is the
\* value returned, None when the call panics instead of returning.
IndexFn(s, q) ==
    LET r == Get(s, q)
    IN  IF r = None THEN [panic |-> TRUE, msg |-> "key not found", ret |-> None]
        ELSE [panic |-> FALSE, msg |-> "", ret |-> r]

\* --------------------------------------------------------- iterators --
\* Iter, IterMut, Keys, Values borrow the storage; IntoIter and Drain own
\* the pairs they were made from.
IterKinds == {"Iter", "IterMut", "Keys", "Values", "IntoIter", "Drain"}
Owning == {"IntoIter", "Drain"}

\* slice::Iter / slice::IterMut / vec::IntoIter / vec::Drain over the pairs
\* s: a cursor at each end.  items are the pairs as they were when the
\* iterator was made; fronts and backs log the positions next() and
\* next_back() have yielded, in order.
NewIter(kind, s, drains) ==
    [kind |-> kind, items |-> s, n |-> Len(s),
     front |-> 1, back |-> Len(s),
     fronts |-> << >>, backs |-> << >>, drains |-> drains]

\* impl_iter!: the $map closure of each iterator type
ItemOf(kind, e) ==
    CASE kind = "Keys" -> e.k
      [] kind = "Values" -> e.v
      [] OTHER -> e

\* Mutant of ItemAccess: IterMut hands out (&mut e.0, &mut e.1).
ItemAccessKeyMut(kind) ==
    CASE kind = "IterMut" -> [k |-> "mut", v |-> "mut"]
      [] kind = "Iter" -> [k |-> "ref", v |-> "ref"]
      [] kind = "Keys" -> [k |-> "ref", v |-> "none"]
      [] kind = "Values" -> [k |-> "none", v |-> "ref"]
      [] OTHER -> [k |-> "own", v |-> "own"]

\* impl_iter!: the item type of each iterator type, as the access to the
\* stored pair it gives its holder: &K / &V ("ref"), &mut V ("mut"), a moved
\* (K, V) ("own"), or nothing.
ItemAccess(kind) ==
    CASE kind = "IterMut" -> [k |-> "ref", v |-> "mut"]
      [] kind = "Iter" -> [k |-> "ref", v |-> "ref"]
      [] kind = "Keys" -> [k |-> "ref", v |-> "none"]
      [] kind = "Values" -> [k |-> "none", v |-> "ref"]
      [] OTHER -> [k |-> "own", v |-> "own"]

\* The pairs an iterator reads: its own, or the borrowed storage s.
IterSource(it, s) == IF it.kind \in Owning THEN it.items ELSE s

\* impl_iter!: next(), self.iter.next().map($map)
IterNext(it, s) ==
    IF it.front > it.back
    THEN [iter |-> it, ret |-> None, pos |-> 0]
    ELSE [iter |-> [it EXCEPT !.front = @ + 1, !.fronts = Append(@, it.front)],
          ret |-> Some(ItemOf(it.kind, IterSource(it, s)[it.front])),
          pos |-> it.front]

\* Mutant of IterNextBack: next_back() forwards to self.iter.next().
NextBackCallsNext(it, s) ==
    IF it.front > it.back
    THEN [iter |-> it, ret |-> None, pos |-> 0]
    ELSE [iter |-> [it EXCEPT !.front = @ + 1, !.backs = Append(@, it.front)],
          ret |-> Some(ItemOf(it.kind, IterSource(it, s)[it.front])),
          pos |-> it.front]

\* impl_iter!: next_back(), self.iter.next_back().map($map)
IterNextBack(it, s) ==
    IF it.front > it.back
    THEN [iter |-> it, ret |-> None, pos |-> 0]
    ELSE [iter |-> [it EXCEPT !.back = @ - 1, !.backs = Append(@, it.back)],
          ret |-> Some(ItemOf(it.kind, IterSource(it, s)[it.back])),
          pos |-> it.back]

\* impl_iter!: ExactSizeIterator::len(), self.iter.len()
IterLen(it) == it.back - it.front + 1

\* LinearMap::drain: self.storage.drain(..) takes every pair out of the
\* vector (its length is 0 while the handle lives); the tail after the
\* drained range, which the handle puts back when dropped, is empty.
DrainFn(s) == [storage |-> << >>, items |-> s, tail |-> << >>]

\* Mutant of DropDrain: the pairs not yet yielded go back into the vector.
DropDrainKeepsRest(s, it) == s \o SubSeq(it.items, it.front, it.back)

\* Drop of vec::Drain: the pairs not yet yielded are dropped and the tail
\* is moved back behind what the vector holds.
DropDrain(s, it) == s \o DrainFn(it.items).tail

\* ------------------------------------------------- building a map --
\* A map as these operators pass it on: its storage and the capacity of it.
MapOf(s, cap) == [storage |-> s, capacity |-> cap]

\* LinearMap::with_capacity
WithCapacity(n) == MapOf(New, n)

\* Extend::extend: for (key, value) in key_values { self.insert(key, value); }
\* from the i-th pair on.
RECURSIVE ExtendFrom(_, _, _)
ExtendFrom(m, kvs, i) ==
    IF i > Len(kvs) THEN m
    ELSE LET r == InsertFn(m.storage, kvs[i].k, kvs[i].v)
         IN  ExtendFrom(MapOf(r.storage,
                              CapacityAfter(m.capacity, m.storage, r.storage)),
                        kvs, i + 1)

\* Mutant of ExtendFn: a pair whose key is stored already is skipped.
RECURSIVE ExtendNewFrom(_, _, _)
ExtendNewFrom(m, kvs, i) ==
    IF i > Len(kvs) THEN m
    ELSE IF Position(m.storage, kvs[i].k) # None THEN ExtendNewFrom(m, kvs, i + 1)
    ELSE LET r == InsertFn(m.storage, kvs[i].k, kvs[i].v)
         IN  ExtendNewFrom(MapOf(r.storage,
                                 CapacityAfter(m.capacity, m.storage, r.storage)),
                           kvs, i + 1)

ExtendKeepsFirst(m, kvs) == ExtendNewFrom(m, kvs, 1)

\* Extend<(K, V)> for LinearMap
ExtendFn(m, kvs) == ExtendFrom(m, kvs, 1)

\* FromIterator<(K, V)> for LinearMap: Self::new(), then extend
FromIter(kvs) == ExtendFn(MapOf(New, Len(New)), kvs)

\* linear_map!: with_capacity(number of pairs), then an insert per pair
LinearMapMacro(kvs) == ExtendFn(WithCapacity(Len(kvs)), kvs)

\* Serialize for LinearMap: serialize_map(Some(self.len())), then an entry
\* per pair in iteration order.
Serialize(s) ==
    [len |-> Some(LenOf(s)), entries |-> [i \in 1..Len(s) |-> << s[i].k, s[i].v >>]]

\* LinearMapVisitor::visit_map: with_capacity(size_hint or 0), then an
\* insert per entry the format hands over.
RECURSIVE VisitFrom(_, _, _)
VisitFrom(m, entries, i) ==
    IF i > Len(entries) THEN m
    ELSE LET r == InsertFn(m.storage, entries[i][1], entries[i][2])
         IN  VisitFrom(MapOf(r.storage,
                             CapacityAfter(m.capacity, m.storage, r.storage)),
                       entries, i + 1)

VisitMap(entries, hint) ==
    VisitFrom(WithCapacity(IF hint = None THEN 0 ELSE hint[1]), entries, 1)

\* The entries of a serialized sequence of pairs.
EntriesOf(kvs) == [i \in 1..Len(kvs) |-> << kvs[i].k, kvs[i].v >>]

\* ------------------------------------------------------- LinearSet --
\* The value type of the map inside a LinearSet<T>: ().
Unit == << >>

\* From<Vec<K>> for LinearSet<K>: the vector is taken over as the storage
\* of the map, element by element a pair (element, ()).
SetFromVec(other) == [i \in 1..Len(other) |-> [k |-> other[i], v |-> Unit]]

\* Mutant of SetInsert: is_some() in place of is_none().
SetInsertIsSome(s, value) ==
    LET r == InsertFn(s, value, Unit)
    IN  [storage |-> r.storage, ret |-> r.ret # None]

\* LinearSet::insert: self.map.insert(value, ()).is_none()
SetInsert(s, value) ==
    LET r == InsertFn(s, value, Unit)
    IN  [storage |-> r.storage, ret |-> r.ret = None]

\* LinearSet::remove: self.map.remove(value).is_some()
SetRemove(s, q) ==
    LET r == RemoveFn(s, q)
    IN  [storage |-> r.storage, ret |-> r.ret # None]

\* LinearSet::contains
SetContains(s, q) == ContainsKey(s, q)

\* LinearSet::iter: the keys of the map, in storage order
SetIter(s) == [i \in 1..Len(s) |-> s[i].k]

\* Difference::next, to the end: the elements of a that other does not
\* contain, in a's order.
Difference(a, other) ==
    LET Keep(elt) == ~SetContains(other, Borrow(elt))
    IN  SelectSeq(SetIter(a), Keep)

\* Intersection::next, to the end: the elements of a that other contains.
Intersection(a, other) ==
    LET Keep(elt) == SetContains(other, Borrow(elt))
    IN  SelectSeq(SetIter(a), Keep)

\* LinearSet::union: self.iter().chain(other.difference(self))
Union(a, other) == SetIter(a) \o Difference(other, a)

\* LinearSet::symmetric_difference:
\* self.difference(other).chain(other.difference(self))
SymmetricDifference(a, other) == Difference(a, other) \o Difference(other, a)

\* Extend<T> for LinearSet: for k in iter { self.insert(k); }
SetExtend(m, elts) == ExtendFn(m, SetFromVec(elts))

\* FromIterator<T> for LinearSet: with_capacity(lower size hint), extend
SetFromIter(elts) == SetExtend(WithCapacity(Len(elts)), elts)

\* LinearSet::retain: self.map.retain(|k, _| f(k)); keeps[i] is what f
\* returns on its call at loop index i.
SetRetain(s, keeps) ==
    RetainFn(s, [i \in 1..Len(s) |-> [keep |-> keeps[i], v |-> s[i].v]])

\* BitOr / BitAnd / BitXor / Sub for &LinearSet: the iterator of the set
\* operation, cloned and collected into a new set.
SetOperator(op, a, b) ==
    SetFromIter(CASE op = "bitor" -> Union(a, b)
                  [] op = "bitand" -> Intersection(a, b)
                  [] op = "bitxor" -> SymmetricDifference(a, b)
                  [] op = "sub" -> Difference(a, b))

\* ----------------------------------------------------- borrowed view --
\* first_duplicate: for each element i, front to back, the position of an
\* equal key among the i elements before it; the first position found.
RECURSIVE FirstDuplicateFrom(_, _)
FirstDuplicateFrom(s, i) ==
    IF i > Len(s) THEN None
    ELSE LET p == Position(SubSeq(s, 1, i - 1), s[i].k)
         IN  IF p # None THEN p ELSE FirstDuplicateFrom(s, i + 1)

\* Mutant of FirstDuplicate: each key is compared with its neighbour only.
FirstDuplicateAdjacent(s) ==
    LET hits == { i \in 2..Len(s) : KeyEq(s[i - 1].k, s[i].k) }
    IN  IF hits = {} THEN None
        ELSE Some((CHOOSE i \in hits : \A j \in hits : i <= j) - 1)

FirstDuplicate(s) == FirstDuplicateFrom(s, 1)

\* Mutant of BorrowedNew: new_unchecked, no scan for duplicates.
BorrowedNewUnchecked(slice) == [ok |-> TRUE, err |-> None]

\* LinearBorrowedMap::new: Ok(view), or Err(&slice[i].0) with err the
\* position i of the key the reference designates.
BorrowedNew(slice) ==
    LET d == FirstDuplicate(slice)
    IN  IF d = None THEN [ok |-> TRUE, err |-> None]
        ELSE [ok |-> FALSE, err |-> d]

\* LinearBorrowedMap::new_mut: Ok(view), or Err(&mut slice[i].0)
BorrowedNewMut(slice) ==
    LET d == FirstDuplicate(slice)
    IN  IF d = None THEN [ok |-> TRUE, err |-> None]
        ELSE [ok |-> FALSE, err |-> d]

\* Iterator::find over the view's pairs: the position of the first pair
\* whose key borrows to q, 0 when there is none.
FindKey(s, q) ==
    LET hits == { i \in 1..Len(s) : Borrow(s[i].k) = q }
    IN  IF hits = {} THEN 0
        ELSE CHOOSE i \in hits : \A j \in hits : i <= j

\* Mutant of BorrowedGet: the search misses the first pair.
BorrowedGetAfterFirst(s, q) ==
    LET i == FindKey(SubSeq(s, 2, Len(s)), q)
    IN  IF i = 0 THEN None ELSE Some(s[i + 1].v)

\* LinearBorrowedMap::get
BorrowedGet(s, q) ==
    LET i == FindKey(s, q)
    IN  IF i = 0 THEN None ELSE Some(s[i].v)

\* LinearBorrowedMap::get_mut: the position of the value the returned
\* &mut V designates
BorrowedGetMut(s, q) ==
    LET i == FindKey(s, q)
    IN  IF i = 0 THEN None ELSE Some(i)

\* LinearBorrowedMap::contains_key
BorrowedContainsKey(s, q) == BorrowedGet(s, q) # None

\* LinearBorrowedMap::len
BorrowedLen(s) == Len(s)

\* Mutant of ToOwned: the pairs are cloned back to front.
ToOwnedReversed(s) == [i \in 1..Len(s) |-> s[Len(s) + 1 - i]]

\* ToOwned for LinearBorrowedMap: the pairs are cloned, in order, into the
\* storage of a new map.
ToOwned(s) == [i \in 1..Len(s) |-> s[i]]

\* ------------------------------------------------------------- Init --
Ids(s) == { s[i].k.id : i \in 1..Len(s) }

\* The ids of the stored keys, position by position.
IdSeq(s) == [i \in 1..Len(s) |-> s[i].k.id]

\* The order of first insertion after a pair with this id was inserted.
OrderAfterInsert(o, id) ==
    IF \E i \in 1..Len(o) : o[i] = id THEN o ELSE Append(o, id)

\* A map is constructed by LinearMap::new() or from a plain Vec<(K, V)>.
InitNew ==
    /\ storage = New
    /\ call = [op |-> "new"]

InitFrom ==
    /\ \E other \in VecsUpTo(MaxVec) : storage = FromVec(other)
    /\ call = [op |-> "from"]

InitRest ==
    /\ entry = NoEntry
    /\ ret = None /\ idx = 0
    /\ prev = storage
    /\ present = Ids(storage)
    /\ iter = NoIter
    /\ otherMap = New
    /\ capacity = Len(storage)
    /\ view = NoView
    /\ readers = 0
    /\ order = IdSeq(storage)

Init == (InitNew \/ InitFrom) /\ InitRest

\* The empty map of LinearMap::new().
InitEmpty == InitNew /\ InitRest

\* ---------------------------------------------------------- actions --
\* ops::Index panicked ("key not found"): the program has ended.
Panicked == call.op = "index" /\ call.panic

\* Mutant of Idle: a &mut self borrow taken while read-only iterators live.
IdleDespiteReaders ==
    entry.kind = "None" /\ iter.kind = "None" /\ view.kind = "None" /\ ~Panicked

\* No handle borrows the map, and the program is running: a method taking
\* &mut self can be called.
Idle ==
    /\ entry.kind = "None" /\ iter.kind = "None" /\ view.kind = "None"
    /\ readers = 0
    /\ ~Panicked

\* No handle borrows the map mutably: a method taking &self can be called.
Shareable ==
    /\ entry.kind = "None"
    /\ iter.kind \in {"None", "Iter", "Keys", "Values"}
    /\ view.kind = "None"
    /\ ~Panicked

Insert(key, value) ==
    /\ Idle
    /\ Len(storage) < MaxLen \/ Position(storage, key) # None
    /\ LET r == InsertFn(storage, key, value)
       IN  /\ storage' = r.storage
           /\ ret' = r.ret
           /\ idx' = r.idx
    /\ call' = [op |-> "insert", key |-> key, value |-> value]
    /\ prev' = storage
    /\ present' = present \cup {key.id}
    /\ UNCHANGED entry
    /\ UNCHANGED << iter, otherMap >>
    /\ capacity' = CapacityAfter(capacity, storage, storage')
    /\ UNCHANGED << view, readers >>
    /\ order' = OrderAfterInsert(order, key.id)

Remove(q) ==
    /\ Idle
    /\ LET r == RemoveFn(storage, q)
       IN  /\ storage' = r.storage
           /\ ret' = r.ret
           /\ idx' = r.idx
    /\ call' = [op |-> "remove", q |-> q]
    /\ prev' = storage
    /\ present' = present \ {q}
    /\ UNCHANGED entry
    /\ UNCHANGED << iter, otherMap >>
    /\ UNCHANGED << capacity, view, readers >>
    /\ order' = IdSeq(storage')

GetOp(q) ==
    /\ Idle
    /\ ret' = Get(storage, q)
    /\ idx' = 0
    /\ call' = [op |-> "get", q |-> q]
    /\ prev' = storage
    /\ UNCHANGED << storage, entry, present >>
    /\ UNCHANGED << iter, otherMap >>
    /\ UNCHANGED << capacity, view, readers >>
    /\ UNCHANGED order

GetMutOp(q) ==
    /\ Idle
    /\ LET r == GetMut(storage, q)
       IN  /\ ret' = IF r = None THEN None ELSE Some(storage[r[1]].v)
           /\ idx' = IF r = None THEN 0 ELSE r[1]
    /\ call' = [op |-> "get_mut", q |-> q]
    /\ prev' = storage
    /\ UNCHANGED << storage, entry, present >>
    /\ UNCHANGED << iter, otherMap >>
    /\ UNCHANGED << capacity, view, readers >>
    /\ UNCHANGED order

ContainsKeyOp(q) ==
    /\ Idle
    /\ ret' = Some(ContainsKey(storage, q))
    /\ idx' = 0
    /\ call' = [op |-> "contains_key", q |-> q]
    /\ prev' = storage
    /\ UNCHANGED << storage, entry, present >>
    /\ UNCHANGED << iter, otherMap >>
    /\ UNCHANGED << capacity, view, readers >>
    /\ UNCHANGED order

\* LinearMap::clear
Clear ==
    /\ Idle
    /\ storage' = << >>
    /\ ret' = None /\ idx' = 0
    /\ call' = [op |-> "clear"]
    /\ prev' = storage
    /\ present' = {}
    /\ UNCHANGED entry
    /\ UNCHANGED << iter, otherMap >>
    /\ UNCHANGED << capacity, view, readers >>
    /\ order' = IdSeq(storage')

\* Mutant of EntryOp: the pair the scan finds is moved to the front of the
\* storage, where the next scan finds it first.
EntryOpMovesToFront(key) ==
    /\ Idle
    /\ LET e == Entry(storage, key)
       IN  /\ storage' = IF e.kind = "Occupied" THEN Swap(storage, 1, e.index)
                                                ELSE storage
           /\ entry' = IF e.kind = "Occupied"
                           THEN [kind |-> "Occupied", index |-> 1] ELSE e
    /\ idx' = IF entry'.kind = "Occupied" THEN entry'.index ELSE 0
    /\ ret' = None
    /\ call' = [op |-> "entry", key |-> key]
    /\ prev' = storage
    /\ UNCHANGED present
    /\ UNCHANGED << iter, otherMap >>
    /\ UNCHANGED << capacity, view, readers >>
    /\ order' = IdSeq(storage')

\* map.entry(key): the handle borrows the map until it is resolved or dropped
EntryOp(key) ==
    /\ Idle
    /\ entry' = Entry(storage, key)
    /\ idx' = IF entry'.kind = "Occupied" THEN entry'.index ELSE 0
    /\ ret' = None
    /\ call' = [op |-> "entry", key |-> key]
    /\ prev' = storage
    /\ UNCHANGED << storage, present >>
    /\ UNCHANGED << iter, otherMap >>
    /\ UNCHANGED << capacity, view, readers >>
    /\ UNCHANGED order

\* OccupiedEntry::get(&self)
OccGet ==
    /\ entry.kind = "Occupied"
    /\ ret' = Some(OccupiedGet(storage, entry))
    /\ call' = [op |-> "occ_get", key |-> call.key]
    /\ prev' = storage
    /\ UNCHANGED << storage, entry, idx, present >>
    /\ UNCHANGED << iter, otherMap >>
    /\ UNCHANGED << capacity, view, readers >>
    /\ UNCHANGED order

\* OccupiedEntry::insert(&mut self, value)
OccInsert(value) ==
    /\ entry.kind = "Occupied"
    /\ LET r == OccupiedInsert(storage, entry, value)
       IN  /\ storage' = r.storage
           /\ ret' = Some(r.ret)
    /\ call' = [op |-> "occ_insert", key |-> call.key, value |-> value]
    /\ prev' = storage
    /\ UNCHANGED << entry, idx, present >>
    /\ UNCHANGED << iter, otherMap >>
    /\ UNCHANGED << capacity, view, readers >>
    /\ order' = IdSeq(storage')

\* OccupiedEntry::get_mut(&mut self), and w stored through the &mut V
OccGetMut(w) ==
    /\ entry.kind = "Occupied"
    /\ ret' = Some(OccupiedGet(storage, entry))
    /\ storage' = [storage EXCEPT ![entry.index].v = w]
    /\ call' = [op |-> "occ_get_mut", key |-> call.key, value |-> w]
    /\ prev' = storage
    /\ UNCHANGED << entry, idx, present >>
    /\ UNCHANGED << iter, otherMap >>
    /\ UNCHANGED << capacity, view, readers >>
    /\ order' = IdSeq(storage')

\* OccupiedEntry::into_mut(self), and w stored through the &'a mut V
OccIntoMut(w) ==
    /\ entry.kind = "Occupied"
    /\ ret' = Some(OccupiedGet(storage, entry))
    /\ storage' = [storage EXCEPT ![entry.index].v = w]
    /\ entry' = NoEntry
    /\ call' = [op |-> "occ_into_mut", key |-> call.key, value |-> w]
    /\ prev' = storage
    /\ UNCHANGED << idx, present >>
    /\ UNCHANGED << iter, otherMap >>
    /\ UNCHANGED << capacity, view, readers >>
    /\ order' = IdSeq(storage')

\* OccupiedEntry::remove(self)
OccRemove ==
    /\ entry.kind = "Occupied"
    /\ LET r == OccupiedRemove(storage, entry)
       IN  /\ storage' = r.storage
           /\ ret' = Some(r.ret)
    /\ entry' = NoEntry
    /\ call' = [op |-> "occ_remove", key |-> call.key]
    /\ prev' = storage
    /\ present' = present \ {call.key.id}
    /\ UNCHANGED idx
    /\ UNCHANGED << iter, otherMap >>
    /\ UNCHANGED << capacity, view, readers >>
    /\ order' = IdSeq(storage')

\* VacantEntry::insert(self, value)
VacInsert(value) ==
    /\ entry.kind = "Vacant"
    /\ Len(storage) < MaxLen
    /\ storage' = VacantInsert(storage, entry, value)
    /\ ret' = Some(storage'[Len(storage')].v)
    /\ idx' = Len(storage')
    /\ entry' = NoEntry
    /\ call' = [op |-> "vac_insert", key |-> call.key, value |-> value]
    /\ prev' = storage
    /\ present' = present \cup {entry.key.id}
    /\ UNCHANGED << iter, otherMap >>
    /\ capacity' = CapacityAfter(capacity, storage, storage')
    /\ UNCHANGED << view, readers >>
    /\ order' = OrderAfterInsert(order, entry.key.id)

\* The handle goes out of scope unresolved.
EntryDrop ==
    /\ entry.kind # "None"
    /\ entry' = NoEntry
    /\ ret' = None
    /\ call' = [op |-> "entry_drop", key |-> call.key]
    /\ prev' = storage
    /\ UNCHANGED << storage, idx, present >>
    /\ UNCHANGED << iter, otherMap >>
    /\ UNCHANGED << capacity, view, readers >>
    /\ UNCHANGED order

\* Entry::or_insert(self, default)
OrInsertOp(default) ==
    /\ entry.kind # "None"
    /\ Len(storage) < MaxLen \/ entry.kind = "Occupied"
    /\ LET r == OrInsert(storage, entry, default)
       IN  /\ storage' = r.storage
           /\ ret' = Some(r.storage[r.slot].v)
           /\ idx' = r.slot
    /\ entry' = NoEntry
    /\ call' = [op |-> "or_insert", key |-> call.key, value |-> default]
    /\ prev' = storage
    /\ present' = present \cup {call.key.id}
    /\ UNCHANGED << iter, otherMap >>
    /\ capacity' = CapacityAfter(capacity, storage, storage')
    /\ UNCHANGED << view, readers >>
    /\ order' = OrderAfterInsert(order, call.key.id)

\* Entry::or_insert_with(self, default)
OrInsertWithOp(fv) ==
    /\ entry.kind # "None"
    /\ Len(storage) < MaxLen \/ entry.kind = "Occupied"
    /\ LET r == OrInsertWith(storage, entry, fv)
       IN  /\ storage' = r.storage
           /\ ret' = Some(r.storage[r.slot].v)
           /\ idx' = r.slot
           /\ call' = [op |-> "or_insert_with", key |-> call.key, value |-> fv,
                       fcalls |-> r.fcalls]
    /\ entry' = NoEntry
    /\ prev' = storage
    /\ present' = present \cup {call.key.id}
    /\ UNCHANGED << iter, otherMap >>
    /\ capacity' = CapacityAfter(capacity, storage, storage')
    /\ UNCHANGED << view, readers >>
    /\ order' = OrderAfterInsert(order, call.key.id)

\* LinearMap::retain(keep_fn)
Retain(ds) ==
    /\ Idle
    /\ LET r == RetainFn(storage, ds)
       IN  /\ storage' = r.storage
           /\ call' = [op |-> "retain", ds |-> ds, calls |-> r.calls,
                       events |-> r.events]
    /\ ret' = None /\ idx' = 0
    /\ prev' = storage
    /\ present' = Ids(storage')
    /\ UNCHANGED << entry, iter, otherMap >>
    /\ UNCHANGED << capacity, view, readers >>
    /\ order' = IdSeq(storage')

\* A new iterator handle of the given kind over the map.
StartIter(kind) ==
    /\ Idle
    /\ iter' = NewIter(kind, storage, iter.drains)
    /\ call' = [op |-> "start", kind |-> kind]
    /\ ret' = None /\ idx' = 0
    /\ prev' = storage
    /\ UNCHANGED << entry, otherMap >>
    /\ UNCHANGED << view, readers >>

\* LinearMap::iter
IterOp == StartIter("Iter") /\ UNCHANGED << storage, present, capacity, order >>

\* LinearMap::iter_mut
IterMutOp == StartIter("IterMut") /\ UNCHANGED << storage, present, capacity, order >>

\* LinearMap::keys
KeysOp == StartIter("Keys") /\ UNCHANGED << storage, present, capacity, order >>

\* LinearMap::values
ValuesOp == StartIter("Values") /\ UNCHANGED << storage, present, capacity, order >>

\* IntoIterator for LinearMap: the map is moved into the iterator; what is
\* filled afterwards is a new, empty map.
IntoIterOp ==
    /\ StartIter("IntoIter")
    /\ storage' = New
    /\ present' = {}
    /\ capacity' = Len(storage')
    /\ order' = IdSeq(storage')

\* LinearMap::drain
DrainOp ==
    /\ iter.drains < MaxDrains
    /\ StartIter("Drain")
    /\ storage' = DrainFn(storage).storage
    /\ present' = {}
    /\ order' = IdSeq(storage')
    /\ UNCHANGED capacity

\* Iterator::next on the live handle
NextOp ==
    /\ iter.kind # "None"
    /\ LET r == IterNext(iter, storage)
       IN  /\ iter' = r.iter
           /\ ret' = r.ret
           /\ idx' = r.pos
    /\ call' = [op |-> "next", kind |-> iter.kind]
    /\ prev' = storage
    /\ UNCHANGED << storage, entry, present, otherMap >>
    /\ UNCHANGED << capacity, view, readers >>
    /\ UNCHANGED order

\* DoubleEndedIterator::next_back on the live handle
NextBackOp ==
    /\ iter.kind # "None"
    /\ LET r == IterNextBack(iter, storage)
       IN  /\ iter' = r.iter
           /\ ret' = r.ret
           /\ idx' = r.pos
    /\ call' = [op |-> "next_back", kind |-> iter.kind]
    /\ prev' = storage
    /\ UNCHANGED << storage, entry, present, otherMap >>
    /\ UNCHANGED << capacity, view, readers >>
    /\ UNCHANGED order

\* The holder of an item yielded for position pos stores w through the
\* item's reference to the pair's field (k or v), which needs a &mut.
StoreThroughItem(pos, field, w) ==
    /\ iter.kind # "None"
    /\ \E a \in 1..Len(iter.fronts) : iter.fronts[a] = pos
       \/ \E b \in 1..Len(iter.backs) : iter.backs[b] = pos
    /\ ItemAccess(iter.kind)[field] = "mut"
    /\ storage' = IF field = "k" THEN [storage EXCEPT ![pos].k = w]
                                 ELSE [storage EXCEPT ![pos].v = w]
    /\ call' = [op |-> "store", kind |-> iter.kind, field |-> field]
    /\ ret' = None /\ idx' = pos
    /\ prev' = storage
    /\ present' = Ids(storage')
    /\ UNCHANGED << iter, entry, otherMap >>
    /\ UNCHANGED << capacity, view, readers >>
    /\ order' = IdSeq(storage')

\* The handle is dropped, used up or not.  taken is the number of items it
\* had yielded.
IterDrop ==
    /\ iter.kind # "None"
    /\ storage' = IF iter.kind = "Drain" THEN DropDrain(storage, iter) ELSE storage
    /\ iter' = [kind |-> "None",
                drains |-> IF iter.kind = "Drain" THEN iter.drains + 1 ELSE iter.drains]
    /\ call' = [op |-> "iter_drop", kind |-> iter.kind, n |-> iter.n,
                items |-> iter.items,
                taken |-> Len(iter.fronts) + Len(iter.backs)]
    /\ ret' = None /\ idx' = 0
    /\ prev' = storage
    /\ UNCHANGED << entry, present, otherMap >>
    /\ UNCHANGED << capacity, view, readers >>
    /\ order' = IdSeq(storage')

Next ==
    \/ \E key \in Keys, value \in Vals : Insert(key, value)
    \/ \E q \in KeyIds : Remove(q)
    \/ \E q \in KeyIds : GetOp(q)
    \/ \E q \in KeyIds : GetMutOp(q)
    \/ \E q \in KeyIds : ContainsKeyOp(q)
    \/ Clear
    \/ \E key \in Keys : EntryOp(key)
    \/ OccGet
    \/ \E value \in Vals : OccInsert(value)
    \/ OccRemove
    \/ \E value \in Vals : VacInsert(value)
    \/ EntryDrop

Spec == Init /\ [][Next]_vars

\* The entry API on its own: a handle is taken and resolved or dropped.
NextEntry ==
    \/ \E key \in Keys : EntryOp(key)
    \/ OccGet
    \/ \E value \in Vals : OccInsert(value)
    \/ OccRemove
    \/ \E value \in Vals : VacInsert(value)
    \/ EntryDrop
    \/ \E default \in Vals : OrInsertOp(default)
    \/ \E fv \in Vals : OrInsertWithOp(fv)

SpecEntry == Init /\ [][NextEntry]_vars

\* A map of up to MaxLen pairs, converted from a plain Vec<(K, V)>.
InitSmall ==
    /\ \E vec \in SmallVecsUpTo(MaxLen) : storage = FromVec(vec)
    /\ call = [op |-> "from"]
    /\ InitRest

\* retain on its own, once on each map.
NextRetain ==
    /\ call.op = "from"
    /\ \E ds \in [1..Len(storage) -> Decisions] : Retain(ds)

SpecRetain == InitSmall /\ [][NextRetain]_vars

\* Iteration: a map is filled by insert, iterated or drained from either
\* end, and filled again.
NextIter ==
    \/ \E key \in SmallKeys, value \in Vals : Insert(key, value)
    \/ IterOp
    \/ IterMutOp
    \/ KeysOp
    \/ ValuesOp
    \/ IntoIterOp
    \/ DrainOp
    \/ NextOp
    \/ NextBackOp
    \/ \E pos \in 1..Len(storage), field \in {"k", "v"} :
           \E w \in (IF field = "k" THEN SmallKeys ELSE Vals) :
               StoreThroughItem(pos, field, w)
    \/ IterDrop

SpecIter == InitEmpty /\ [][NextIter]_vars

\* insert on the second map
InsertOther(key, value) ==
    /\ Idle
    /\ Len(otherMap) < MaxLen \/ Position(otherMap, key) # None
    /\ LET r == InsertFn(otherMap, key, value)
       IN  /\ otherMap' = r.storage
           /\ ret' = r.ret
           /\ idx' = r.idx
    /\ call' = [op |-> "insert_other", key |-> key, value |-> value]
    /\ prev' = storage
    /\ UNCHANGED << storage, entry, present, iter >>
    /\ UNCHANGED << capacity, view, readers >>
    /\ UNCHANGED order

\* storage == otherMap, or otherMap == storage when swapped
EqOp(swapped) ==
    /\ Idle
    /\ ret' = Some(IF swapped THEN EqFn(otherMap, storage)
                             ELSE EqFn(storage, otherMap))
    /\ idx' = 0
    /\ call' = [op |-> "eq", swapped |-> swapped]
    /\ prev' = storage
    /\ UNCHANGED << storage, otherMap, entry, present, iter >>
    /\ UNCHANGED << capacity, view, readers >>
    /\ UNCHANGED order

\* Two maps, each converted from a plain Vec<(K, V)> (the empty one is
\* LinearMap::new()).
InitEq ==
    /\ \E a, b \in EqVecsUpTo(MaxVec) :
           /\ storage = FromVec(a)
           /\ otherMap = FromVec(b)
    /\ call = [op |-> "from"]
    /\ entry = NoEntry
    /\ ret = None /\ idx = 0
    /\ prev = storage
    /\ present = Ids(storage)
    /\ iter = NoIter
    /\ capacity = Len(storage)
    /\ view = NoView
    /\ readers = 0
    /\ order = IdSeq(storage)

\* Two maps are changed by insert and remove and compared either way round.
NextEq ==
    \/ \E key \in EqKeys, value \in Vals : Insert(key, value)
    \/ \E q \in EqIds : Remove(q)
    \/ \E key \in EqKeys, value \in Vals : InsertOther(key, value)
    \/ \E swapped \in BOOLEAN : EqOp(swapped)

SpecEq == InitEq /\ [][NextEq]_vars

\* map[q]
IndexOp(q) ==
    /\ Idle
    /\ LET r == IndexFn(storage, q)
       IN  /\ ret' = r.ret
           /\ call' = [op |-> "index", q |-> q, panic |-> r.panic, msg |-> r.msg]
    /\ idx' = 0
    /\ prev' = storage
    /\ UNCHANGED << storage, entry, present, iter, otherMap >>
    /\ UNCHANGED << capacity, view, readers >>
    /\ UNCHANGED order

\* A map is filled, emptied and indexed by key until an index panics.
NextIndex ==
    \/ \E key \in Keys, value \in Vals : Insert(key, value)
    \/ \E q \in KeyIds : Remove(q)
    \/ \E q \in KeyIds : IndexOp(q)

SpecIndex == Init /\ [][NextIndex]_vars

\* The borrowed view: storage is the caller's sequence of pairs.
\* LinearBorrowedMap::new(&slice) or new_mut(&mut slice)
BorrowedNewOp(mutable) ==
    /\ Idle
    /\ LET r == IF mutable THEN BorrowedNewMut(storage) ELSE BorrowedNew(storage)
       IN  /\ view' = IF r.ok
                       THEN [kind |-> IF mutable THEN "Mut" ELSE "Ref",
                             keys |-> [i \in 1..Len(storage) |-> storage[i].k]]
                       ELSE NoView
           /\ call' = [op |-> "borrowed_new", mutable |-> mutable, ok |-> r.ok]
           /\ ret' = r.err
           /\ idx' = IF r.err = None THEN 0 ELSE r.err[1]
    /\ prev' = storage
    /\ UNCHANGED << storage, entry, present, iter, otherMap, capacity >>
    /\ UNCHANGED << order, readers >>

\* The view is live and no iterator borrows it.
ViewIdle == view.kind # "None" /\ iter.kind = "None"

\* view.get(q)
ViewGet(q) ==
    /\ ViewIdle
    /\ ret' = BorrowedGet(storage, q)
    /\ idx' = 0
    /\ call' = [op |-> "view_get", q |-> q]
    /\ prev' = storage
    /\ UNCHANGED << storage, entry, present, iter, otherMap, capacity, view, readers >>
    /\ UNCHANGED order

\* view.get_mut(q), and w stored through the &mut V it returned
ViewGetMut(q, w) ==
    /\ ViewIdle
    /\ view.kind = "Mut"
    /\ LET r == BorrowedGetMut(storage, q)
       IN  /\ ret' = r
           /\ idx' = IF r = None THEN 0 ELSE r[1]
           /\ storage' = IF r = None THEN storage
                          ELSE [storage EXCEPT ![r[1]].v = w]
    /\ call' = [op |-> "view_get_mut", q |-> q, value |-> w]
    /\ prev' = storage
    /\ UNCHANGED << entry, present, iter, otherMap, capacity, view, readers >>
    /\ order' = IdSeq(storage')

\* view.contains_key(q)
ViewContainsKey(q) ==
    /\ ViewIdle
    /\ ret' = Some(BorrowedContainsKey(storage, q))
    /\ idx' = 0
    /\ call' = [op |-> "view_contains_key", q |-> q]
    /\ prev' = storage
    /\ UNCHANGED << storage, entry, present, iter, otherMap, capacity, view, readers >>
    /\ UNCHANGED order

\* view.len()
ViewLen ==
    /\ ViewIdle
    /\ ret' = Some(BorrowedLen(storage))
    /\ idx' = 0
    /\ call' = [op |-> "view_len"]
    /\ prev' = storage
    /\ UNCHANGED << storage, entry, present, iter, otherMap, capacity, view, readers >>
    /\ UNCHANGED order

\* view.to_owned(): returns the storage of the owned map.
ViewToOwned ==
    /\ ViewIdle
    /\ ret' = Some(ToOwned(storage))
    /\ idx' = 0
    /\ call' = [op |-> "view_to_owned"]
    /\ prev' = storage
    /\ UNCHANGED << storage, entry, present, iter, otherMap, capacity, view, readers >>
    /\ UNCHANGED order

\* view.iter(), iter_mut(), keys(), values(); iter_mut needs a view made
\* by new_mut.
ViewStartIter(kind) ==
    /\ ViewIdle
    /\ kind = "IterMut" => view.kind = "Mut"
    /\ iter' = NewIter(kind, storage, iter.drains)
    /\ call' = [op |-> "view_start", kind |-> kind]
    /\ ret' = None /\ idx' = 0
    /\ prev' = storage
    /\ UNCHANGED << storage, entry, present, otherMap, capacity, view, readers >>
    /\ UNCHANGED order

\* The view goes out of scope.
ViewDrop ==
    /\ ViewIdle
    /\ view' = NoView
    /\ UNCHANGED readers
    /\ call' = [op |-> "view_drop"]
    /\ ret' = None /\ idx' = 0
    /\ prev' = storage
    /\ UNCHANGED << storage, entry, present, iter, otherMap, capacity >>
    /\ UNCHANGED order

\* A caller's sequence of up to MaxLen pairs, with or without equal keys.
InitBorrowed ==
    /\ storage \in VecsUpTo(MaxLen)
    /\ call = [op |-> "slice"]
    /\ InitRest

\* Checked construction of a view, which is dropped again.
NextBorrowed ==
    \/ \E mutable \in BOOLEAN : BorrowedNewOp(mutable)
    \/ ViewLen
    \/ ViewDrop

SpecBorrowed == InitBorrowed /\ [][NextBorrowed]_vars

\* A caller's sequence of up to MaxLen pairs over keys that differ only
\* by their ids.
InitView ==
    /\ storage \in SmallVecsUpTo(MaxLen)
    /\ call = [op |-> "slice"]
    /\ InitRest

\* A view is made over the sequence, used and dropped.
NextView ==
    \/ \E mutable \in BOOLEAN : BorrowedNewOp(mutable)
    \/ \E q \in KeyIds : ViewGet(q)
    \/ \E q \in KeyIds, w \in Vals : ViewGetMut(q, w)
    \/ \E q \in KeyIds : ViewContainsKey(q)
    \/ ViewLen
    \/ ViewToOwned
    \/ \E kind \in {"Iter", "IterMut", "Keys", "Values"} : ViewStartIter(kind)
    \/ view.kind # "None" /\ NextOp
    \/ view.kind # "None" /\ NextBackOp
    \/ \E pos \in 1..Len(storage), field \in {"k", "v"} :
           \E w \in (IF field = "k" THEN SmallKeys ELSE Vals) :
               view.kind # "None" /\ StoreThroughItem(pos, field, w)
    \/ view.kind # "None" /\ IterDrop
    \/ ViewDrop

SpecView == InitView /\ [][NextView]_vars

\* map.as_slice()
AsSliceOp ==
    /\ Idle
    /\ ret' = Some(AsSlice(storage))
    /\ idx' = 0
    /\ call' = [op |-> "as_slice"]
    /\ prev' = storage
    /\ UNCHANGED << storage, entry, present, iter, otherMap, capacity, view, readers, order >>

\* A map changed by insert alone, read by as_slice and by iteration.
NextInsertOnly ==
    \/ \E key \in Keys, value \in Vals : Insert(key, value)
    \/ AsSliceOp
    \/ IterOp
    \/ NextOp
    \/ IterDrop

SpecInsertOnly == InitEmpty /\ [][NextInsertOnly]_vars

\* The order of first insertion after the pairs kvs were inserted, from the
\* i-th on.
RECURSIVE OrderAfterAll(_, _, _)
OrderAfterAll(o, kvs, i) ==
    IF i > Len(kvs) THEN o
    ELSE OrderAfterAll(OrderAfterInsert(o, kvs[i].k.id), kvs, i + 1)

\* The map is replaced or extended by the map m built from the pairs kvs.
Built(op, m, kvs, before) ==
    /\ Idle
    /\ storage' = m.storage
    /\ capacity' = m.capacity
    /\ call' = [op |-> op, items |-> kvs]
    /\ ret' = None /\ idx' = 0
    /\ prev' = storage
    /\ present' = Ids(before) \cup Ids(kvs)
    /\ order' = OrderAfterAll(IdSeq(before), kvs, 1)
    /\ UNCHANGED << entry, iter, otherMap, view, readers >>

\* map.extend(kvs)
ExtendOp(kvs) ==
    Built("extend", ExtendFn(MapOf(storage, capacity), kvs), kvs, storage)

\* kvs.into_iter().collect::<LinearMap<_, _>>()
FromIterOp(kvs) == Built("from_iter", FromIter(kvs), kvs, New)

\* linear_map!{ k => v, ... }
MacroOp(kvs) == Built("macro", LinearMapMacro(kvs), kvs, New)

\* LinearMap::deserialize of the entries kvs, with or without a size hint
DeserializeOp(kvs, hinted) ==
    Built("deserialize",
          VisitMap(EntriesOf(kvs), IF hinted THEN Some(Len(kvs)) ELSE None),
          kvs, New)

\* A run builds one map from a sequence of up to MaxLen pairs, or leaves
\* it new, and extends it once by up to MaxVec pairs.
NextBuild ==
    \/ \E kvs \in EqVecsUpTo(MaxVec) :
           call.op # "extend" /\ ExtendOp(kvs)
    \/ \E kvs \in EqVecsUpTo(MaxLen) :
           call.op = "new" /\ FromIterOp(kvs)
    \/ \E kvs \in EqVecsUpTo(MaxLen) :
           call.op = "new" /\ MacroOp(kvs)
    \/ \E kvs \in EqVecsUpTo(MaxLen), hinted \in BOOLEAN :
           call.op = "new" /\ DeserializeOp(kvs, hinted)

SpecBuild == InitEmpty /\ [][NextBuild]_vars

\* The map is serialized and the result deserialized into otherMap, by a
\* format that passes the length on as size hint or one that does not.
SerDeOp(hinted) ==
    /\ Idle
    /\ LET enc == Serialize(storage)
           dec == VisitMap(enc.entries, IF hinted THEN enc.len ELSE None)
       IN  /\ otherMap' = dec.storage
           /\ call' = [op |-> "ser_de", hinted |-> hinted, len |-> enc.len,
                       capacity |-> dec.capacity]
    /\ ret' = None /\ idx' = 0
    /\ prev' = storage
    /\ UNCHANGED << storage, entry, present, iter, capacity, view, readers, order >>

\* A map of up to MaxLen pairs takes the round trip.
NextSerde == \E hinted \in BOOLEAN : SerDeOp(hinted)

SpecSerde == InitSmall /\ [][NextSerde]_vars

\* LinearMap::with_capacity(n), in place of the new map
WithCapacityOp(n) ==
    /\ Idle
    /\ call.op = "new"
    /\ storage' = WithCapacity(n).storage
    /\ capacity' = WithCapacity(n).capacity
    /\ call' = [op |-> "with_capacity", n |-> n]
    /\ ret' = None /\ idx' = 0
    /\ prev' = storage
    /\ present' = {}
    /\ order' = IdSeq(storage')
    /\ UNCHANGED << entry, iter, otherMap, view, readers >>

\* map.reserve(additional); before is the capacity it found
ReserveOp(additional) ==
    /\ Idle
    /\ capacity' = VecReserve(capacity, Len(storage), additional)
    /\ call' = [op |-> "reserve", additional |-> additional, before |-> capacity]
    /\ ret' = None /\ idx' = 0
    /\ prev' = storage
    /\ UNCHANGED << storage, entry, present, iter, otherMap, view, readers, order >>

\* map.reserve_exact(additional)
ReserveExactOp(additional) ==
    /\ Idle
    /\ capacity' = VecReserveExact(capacity, Len(storage), additional)
    /\ call' = [op |-> "reserve_exact", additional |-> additional,
                before |-> capacity]
    /\ ret' = None /\ idx' = 0
    /\ prev' = storage
    /\ UNCHANGED << storage, entry, present, iter, otherMap, view, readers, order >>

\* map.capacity()
CapacityOp ==
    /\ Idle
    /\ ret' = Some(capacity)
    /\ idx' = 0
    /\ call' = [op |-> "capacity"]
    /\ prev' = storage
    /\ UNCHANGED << storage, entry, present, iter, otherMap, capacity, view, readers, order >>

\* A map is made with or without a capacity, asked to reserve, filled and
\* emptied.
NextCapacity ==
    \/ \E n \in 0..MaxLen : WithCapacityOp(n)
    \/ \E additional \in 0..MaxAdditional : ReserveOp(additional)
    \/ \E additional \in 0..MaxAdditional : ReserveExactOp(additional)
    \/ CapacityOp
    \/ \E key \in SmallKeys, value \in Vals : Insert(key, value)
    \/ \E q \in KeyIds : Remove(q)

SpecCapacity == InitEmpty /\ [][NextCapacity]_vars

\* LinearSet: storage is the storage of the map inside the set, otherMap
\* that of a second set.
\* set.insert(value)
SetInsertOp(value) ==
    /\ Idle
    /\ Len(storage) < MaxVec \/ Position(storage, value) # None
    /\ LET r == SetInsert(storage, value)
       IN  /\ storage' = r.storage
           /\ ret' = Some(r.ret)
    /\ idx' = 0
    /\ call' = [op |-> "set_insert", value |-> value]
    /\ prev' = storage
    /\ present' = present \cup {value.id}
    /\ capacity' = CapacityAfter(capacity, storage, storage')
    /\ order' = OrderAfterInsert(order, value.id)
    /\ UNCHANGED << entry, iter, otherMap, view, readers >>

\* set.remove(q)
SetRemoveOp(q) ==
    /\ Idle
    /\ LET r == SetRemove(storage, q)
       IN  /\ storage' = r.storage
           /\ ret' = Some(r.ret)
    /\ idx' = 0
    /\ call' = [op |-> "set_remove", q |-> q]
    /\ prev' = storage
    /\ present' = present \ {q}
    /\ order' = IdSeq(storage')
    /\ UNCHANGED << entry, iter, otherMap, capacity, view, readers >>

\* The elements a set operation yields when iterated to its end; the
\* receiver is the second set when swapped.
SetAlgebraOp(op, swapped) ==
    /\ Idle
    /\ LET a == IF swapped THEN otherMap ELSE storage
           b == IF swapped THEN storage ELSE otherMap
       IN  ret' = Some(CASE op = "union" -> Union(a, b)
                         [] op = "intersection" -> Intersection(a, b)
                         [] op = "difference" -> Difference(a, b)
                         [] op = "symmetric_difference" -> SymmetricDifference(a, b))
    /\ idx' = 0
    /\ call' = [op |-> op, swapped |-> swapped]
    /\ prev' = storage
    /\ UNCHANGED << storage, entry, present, iter, otherMap, capacity, view, readers, order >>

\* Two sets, each converted from a plain Vec<K> (the empty one is
\* LinearSet::new()).
InitSet ==
    /\ \E a, b \in KeyVecsUpTo(MaxVec) :
           /\ storage = SetFromVec(a)
           /\ otherMap = SetFromVec(b)
    /\ call = [op |-> "from"]
    /\ entry = NoEntry
    /\ ret = None /\ idx = 0
    /\ prev = storage
    /\ present = Ids(storage)
    /\ iter = NoIter
    /\ capacity = Len(storage)
    /\ view = NoView
    /\ readers = 0
    /\ order = IdSeq(storage)

\* A set is changed by insert and remove and combined with a second set.
NextSet ==
    \/ \E value \in Keys : SetInsertOp(value)
    \/ \E q \in KeyIds : SetRemoveOp(q)
    \/ \E op \in {"union", "intersection", "difference", "symmetric_difference"},
          swapped \in BOOLEAN : SetAlgebraOp(op, swapped)

SpecSet == InitSet /\ [][NextSet]_vars

\* LinearMap::iter(&self), while other read-only iterators may be live: one
\* more read-only iterator over the map.
SharedIterOp ==
    /\ Shareable
    /\ readers < MaxReaders
    /\ readers' = readers + 1
    /\ call' = [op |-> "shared_iter"]
    /\ ret' = None /\ idx' = 0
    /\ prev' = storage
    /\ UNCHANGED << storage, entry, present, iter, otherMap, capacity, view, order >>

\* One of the further read-only iterators is dropped.
SharedIterDrop ==
    /\ readers > 0
    /\ readers' = readers - 1
    /\ call' = [op |-> "shared_drop"]
    /\ ret' = None /\ idx' = 0
    /\ prev' = storage
    /\ UNCHANGED << storage, entry, present, iter, otherMap, capacity, view, order >>

\* Every way to take a handle on the map, and to give it back.
NextHandles ==
    \/ \E key \in SmallKeys, value \in Vals : Insert(key, value)
    \/ \E key \in SmallKeys : EntryOp(key)
    \/ \E value \in Vals : OccInsert(value)
    \/ OccRemove
    \/ \E value \in Vals : VacInsert(value)
    \/ EntryDrop
    \/ IterOp
    \/ KeysOp
    \/ IterMutOp
    \/ DrainOp
    \/ NextOp
    \/ IterDrop
    \/ SharedIterOp
    \/ SharedIterDrop

SpecHandles == InitEmpty /\ [][NextHandles]_vars

\* set.retain(f)
SetRetainOp(keeps) ==
    /\ Idle
    /\ LET r == SetRetain(storage, keeps)
       IN  /\ storage' = r.storage
           /\ call' = [op |-> "set_retain", keeps |-> keeps, calls |-> r.calls]
    /\ ret' = None /\ idx' = 0
    /\ prev' = storage
    /\ present' = Ids(storage')
    /\ order' = IdSeq(storage')
    /\ UNCHANGED << entry, iter, otherMap, capacity, view, readers >>

\* set.extend(elts)
SetExtendOp(elts) ==
    /\ Len(storage) + Len(elts) <= MaxLen
    /\ Built("set_extend", SetExtend(MapOf(storage, capacity), elts),
             SetFromVec(elts), storage)

\* set = &set | &other, and likewise &, ^ and -
SetOperatorOp(op) ==
    Built(op, SetOperator(op, storage, otherMap),
          SetFromVec(SetIter(SetOperator(op, storage, otherMap).storage)), New)

\* Every way the library makes or changes a set.
NextSets ==
    \/ \E value \in SmallKeys : SetInsertOp(value)
    \/ \E q \in KeyIds : SetRemoveOp(q)
    \/ \E keeps \in [1..Len(storage) -> BOOLEAN] : SetRetainOp(keeps)
    \/ \E elts \in KeyVecsUpTo(MaxVec) : call.op # "set_extend" /\ SetExtendOp(elts)
    \/ \E op \in {"bitor", "bitand", "bitxor", "sub"} : SetOperatorOp(op)

SpecSets == InitSet /\ [][NextSets]_vars

\* The life of an entry handle: made by entry(key), used, and resolved or
\* dropped.
NextHandle ==
    \/ \E key \in Keys : EntryOp(key)
    \/ OccGet
    \/ \E w \in Vals : OccGetMut(w)
    \/ \E w \in Vals : OccIntoMut(w)
    \/ \E value \in Vals : OccInsert(value)
    \/ OccRemove
    \/ \E value \in Vals : VacInsert(value)
    \/ EntryDrop

SpecHandle == InitSmall /\ [][NextHandle]_vars

\* storage == storage: a map compared with itself
EqSelfOp ==
    /\ Idle
    /\ ret' = Some(EqFn(storage, storage))
    /\ idx' = 0
    /\ call' = [op |-> "eq_self"]
    /\ prev' = storage
    /\ UNCHANGED << storage, otherMap, entry, present, iter >>
    /\ UNCHANGED << capacity, view, readers >>
    /\ UNCHANGED order

\* A map is changed and compared with a second either way round, and with
\* itself.
NextEqv ==
    \/ \E key \in EqKeys, value \in Vals : Insert(key, value)
    \/ \E swapped \in BOOLEAN : EqOp(swapped)
    \/ EqSelfOp

SpecEqv == InitEq /\ [][NextEqv]_vars

\* Maps changed by insert, remove, retain and the entry handles, from the
\* empty map.
NextChange ==
    \/ \E key \in SmallKeys, value \in Vals : Insert(key, value)
    \/ \E q \in KeyIds : Remove(q)
    \/ \E ds \in [1..Len(storage) -> Decisions] : Retain(ds)
    \/ \E key \in SmallKeys : EntryOp(key)
    \/ \E value \in Vals : OccInsert(value)
    \/ OccRemove
    \/ \E value \in Vals : VacInsert(value)
    \/ EntryDrop

SpecChange == InitEmpty /\ [][NextChange]_vars

\* Maps built from the empty map by insert and remove alone.

NextInsertRemove ==
    \/ \E key \in Keys, value \in Vals : Insert(key, value)
    \/ \E q \in KeyIds : Remove(q)

SpecInsertRemove == InitEmpty /\ [][NextInsertRemove]_vars

\* ===================================================== properties ==
\* What the claims are stated with: the plain reading of "a key is stored".
HasKey(s, id) == \E i \in 1..Len(s) : s[i].k.id = id

\* The earliest position holding a key equal to id (when HasKey(s, id)).
FirstIndex(s, id) ==
    CHOOSE i \in 1..Len(s) :
        /\ s[i].k.id = id
        /\ \A j \in 1..(i - 1) : s[j].k.id # id

\* No two stored pairs have equal keys.
Unique(s) == \A i, j \in 1..Len(s) : i # j => ~KeyEq(s[i].k, s[j].k)

\* C1: starting from the empty map, after any sequence of insert and remove,
\* len() is the number of keys logically present (inserted and not since
\* removed), the stored keys are exactly those, and no two stored pairs have
\* equal keys.
C1_LenCountsDistinctKeys ==
    /\ LenOf(storage) = Cardinality(present)
    /\ Ids(storage) = present
    /\ Unique(storage)

\* A present key was removed from a map of three keys.
C1_Witness ==
    /\ call.op = "remove" /\ ret # None
    /\ Len(prev) = 3 /\ Cardinality(present) = 2

\* C2: whenever no operation is in progress the map holds at most one pair
\* per key, whichever public operation (conversion from a plain Vec of pairs
\* included) produced it.
C2_AtMostOnePairPerKey == Unique(storage)

\* C3: after insert(k, v), get(k) returns v; a following insert(k2, v2) with
\* k2 == k returns the displaced v, leaves len() unchanged and makes get(k)
\* return v2; insert of a key that was not stored returns None and grows
\* len() by exactly one.
C3_InsertThenGet ==
    call.op = "insert" =>
        /\ Get(storage, Borrow(call.key)) = Some(call.value)
        /\ \A k2 \in Keys, v2 \in Vals :
              KeyEq(k2, call.key) =>
                  LET r == InsertFn(storage, k2, v2)
                  IN  /\ r.ret = Some(call.value)
                      /\ LenOf(r.storage) = LenOf(storage)
                      /\ Get(r.storage, Borrow(call.key)) = Some(v2)
        /\ ~HasKey(prev, call.key.id) =>
              /\ ret = None
              /\ LenOf(storage) = LenOf(prev) + 1

\* An insert displaced a different value.
C3_Witness ==
    /\ call.op = "insert"
    /\ ret # None /\ ret # Some(call.value)

\* C4: get(k) and get_mut(k) return the value of the first pair, front to
\* back, whose key equals k, and None when no stored key equals k;
\* contains_key(k) is true exactly when get(k) returns a value; none of the
\* three changes the map.
C4_LookupFirstMatch ==
    call.op \in {"get", "get_mut", "contains_key"} =>
        /\ storage = prev
        /\ call.op = "get" =>
              ret = IF HasKey(prev, call.q)
                    THEN Some(prev[FirstIndex(prev, call.q)].v) ELSE None
        /\ call.op = "get_mut" =>
              /\ ret = IF HasKey(prev, call.q)
                       THEN Some(prev[FirstIndex(prev, call.q)].v) ELSE None
              /\ idx = IF HasKey(prev, call.q) THEN FirstIndex(prev, call.q) ELSE 0
        /\ call.op = "contains_key" =>
              /\ ret = Some(Get(storage, call.q) # None)
              /\ ret = Some(HasKey(prev, call.q))

\* get found its key behind a pair with another key, in a map of three pairs.
C4_Witness ==
    /\ call.op = "get" /\ ret # None
    /\ Len(storage) = 3 /\ storage[1].k.id # call.q

\* C5: remove(k) of a key that is not stored returns None and leaves the
\* storage unchanged; remove(k) of a stored key returns the value stored for
\* k and decreases len() by exactly one.
C5_RemoveResult ==
    call.op = "remove" =>
        IF HasKey(prev, call.q)
        THEN /\ ret = Some(prev[FirstIndex(prev, call.q)].v)
             /\ LenOf(storage) = LenOf(prev) - 1
        ELSE /\ ret = None
             /\ storage = prev

\* remove took a key out of a map of three pairs, and it was not the first.
C5_Witness ==
    /\ call.op = "remove" /\ ret # None
    /\ Len(prev) = 3 /\ prev[1].k.id # call.q

\* C6: after remove(k) returns, get(k) is None, contains_key(k) is false, and
\* a second remove(k) returns None.
C6_RemoveThenAbsent ==
    call.op = "remove" =>
        /\ Get(storage, call.q) = None
        /\ ~ContainsKey(storage, call.q)
        /\ RemoveFn(storage, call.q).ret = None

\* C7: remove(k) of a key found at position i of n pairs is a swap-remove:
\* n - 1 pairs are left, position i holds the pair that was last (when i is
\* not the last position), and every other remaining pair is where it was.
C7_RemoveIsSwapRemove ==
    (call.op = "remove" /\ HasKey(prev, call.q)) =>
        LET i == FirstIndex(prev, call.q)
            n == Len(prev)
        IN  /\ idx = i
            /\ Len(storage) = n - 1
            /\ i < n => storage[i] = prev[n]
            /\ \A j \in 1..(n - 1) : j # i => storage[j] = prev[j]

\* remove found its key in the first of three positions.
C7_Witness ==
    /\ call.op = "remove" /\ idx = 1
    /\ Len(prev) = 3

\* C8: insert(k2, v) where an equal key k is stored overwrites only that
\* pair's value: the stored key object stays k, the pair keeps its position,
\* len() is unchanged and every other pair is unchanged.
C8_InsertKeepsStoredKey ==
    (call.op = "insert" /\ HasKey(prev, call.key.id)) =>
        LET i == FirstIndex(prev, call.key.id)
        IN  /\ Len(storage) = Len(prev)
            /\ storage[i].k = prev[i].k
            /\ storage[i].v = call.value
            /\ \A j \in 1..Len(prev) : j # i => storage[j] = prev[j]

\* insert overwrote the second of three pairs with a key object that is
\* equal to, but not the same as, the stored one.
C8_Witness ==
    /\ call.op = "insert" /\ idx = 2 /\ Len(prev) = 3
    /\ prev[2].k # call.key /\ ret # Some(call.value)

\* C9: entry(k) is Occupied exactly when some stored key equals k and Vacant,
\* carrying k, otherwise; an Occupied handle is bound to the earliest
\* position whose key equals k; entry(k) does not change the storage.
C9_EntryScan ==
    call.op = "entry" =>
        /\ storage = prev
        /\ entry.kind \in {"Occupied", "Vacant"}
        /\ entry.kind = "Occupied" <=> HasKey(storage, call.key.id)
        /\ entry.kind = "Vacant" => entry.key = call.key
        /\ entry.kind = "Occupied" => entry.index = FirstIndex(storage, call.key.id)

\* entry found its key in the second position.
C9_Witness ==
    /\ call.op = "entry" /\ entry.kind = "Occupied"
    /\ entry.index = 2

\* C10: on an Occupied entry for k, get() returns the value stored for k;
\* insert(v) stores v for k and returns the displaced value, with len() and
\* every other pair unchanged, and map.get(k) then returns v.
C10_OccupiedGetInsert ==
    /\ call.op = "occ_get" =>
          /\ ret = Some(prev[FirstIndex(prev, call.key.id)].v)
          /\ storage = prev
    /\ call.op = "occ_insert" =>
          LET i == FirstIndex(prev, call.key.id)
          IN  /\ ret = Some(prev[i].v)
              /\ Len(storage) = Len(prev)
              /\ storage[i] = [k |-> prev[i].k, v |-> call.value]
              /\ \A j \in 1..Len(prev) : j # i => storage[j] = prev[j]
              /\ Get(storage, call.key.id) = Some(call.value)

\* An Occupied handle on the second of at least two pairs replaced a
\* different value.
C10_Witness ==
    /\ call.op = "occ_insert" /\ entry.index = 2
    /\ ret # Some(call.value)

\* C11: on an Occupied entry for k, remove() has exactly the effect and
\* result of map.remove(k): it returns the value stored for k, swap-removes
\* that pair, decreases len() by one, and afterwards get(k) is None.
C11_OccupiedRemoveIsRemove ==
    call.op = "occ_remove" =>
        LET r == RemoveFn(prev, Borrow(call.key))
        IN  /\ storage = r.storage
            /\ ret = r.ret
            /\ ret = Some(prev[FirstIndex(prev, call.key.id)].v)
            /\ storage = SwapRemove(prev, FirstIndex(prev, call.key.id))
            /\ LenOf(storage) = LenOf(prev) - 1
            /\ Get(storage, Borrow(call.key)) = None

\* C12: on a Vacant entry holding pending key k, insert(v) appends (k, v) as
\* the last pair, leaves every earlier pair where it was, grows len() by one,
\* and the reference it returns designates the newly stored value.
C12_VacantInsertAppends ==
    call.op = "vac_insert" =>
        /\ LenOf(storage) = LenOf(prev) + 1
        /\ \A j \in 1..Len(prev) : storage[j] = prev[j]
        /\ storage[Len(storage)] = [k |-> call.key, v |-> call.value]
        /\ idx = Len(storage)
        /\ ret = Some(call.value)

\* A Vacant entry inserted into a map that already held two pairs.
C12_Witness ==
    /\ call.op = "vac_insert"
    /\ Len(prev) = 2

\* C13: entry(k).or_insert_with(f) runs f at most once, and only when the
\* entry was vacant; when k is stored f is not run, the stored value is left
\* as it was and is the one returned; entry(k).or_insert(d) stores d only
\* when k was not stored.
C13_OrInsertRunsCallbackOnlyIfVacant ==
    /\ call.op = "or_insert_with" =>
          /\ call.fcalls <= 1
          /\ call.fcalls = 1 <=> ~HasKey(prev, call.key.id)
    /\ call.op \in {"or_insert", "or_insert_with"} =>
          IF HasKey(prev, call.key.id)
          THEN /\ storage = prev
               /\ idx = FirstIndex(prev, call.key.id)
               /\ ret = Some(prev[idx].v)
          ELSE /\ storage = Append(prev, [k |-> call.key, v |-> call.value])
               /\ idx = Len(storage)
               /\ ret = Some(call.value)

\* or_insert_with met a stored key whose value differs from what the
\* callback would have returned.
C13_Witness ==
    /\ call.op = "or_insert_with" /\ call.fcalls = 0
    /\ ret # Some(call.value) /\ idx = 2

\* The pairs of s that ds keeps, in the order of s, each with the value ds
\* leaves in it.
RECURSIVE KeptFrom(_, _, _)
KeptFrom(s, ds, i) ==
    IF i > Len(s) THEN << >>
    ELSE (IF ds[i].keep THEN << [k |-> s[i].k, v |-> ds[i].v] >> ELSE << >>)
         \o KeptFrom(s, ds, i + 1)

\* C14: after retain(p) the storage is exactly the subsequence of the prior
\* storage made of the pairs for which p returned true, in their prior
\* order, with the value changes p made, and len() is the number of kept
\* pairs.
C14_RetainKeepsSubsequence ==
    call.op = "retain" =>
        /\ storage = KeptFrom(prev, call.ds, 1)
        /\ LenOf(storage) = Cardinality({ i \in 1..Len(prev) : call.ds[i].keep })

\* retain dropped the first of three pairs, kept the other two and changed
\* the value of the last.
C14_Witness ==
    /\ call.op = "retain" /\ Len(prev) = 3
    /\ ~call.ds[1].keep /\ call.ds[2].keep /\ call.ds[3].keep
    /\ call.ds[3].v # prev[3].v

\* C15: retain with a predicate that always returns true leaves the length
\* and every pair's key and position unchanged (and the values as well, when
\* the predicate writes none); retain with a predicate that always returns
\* false leaves the map empty.
C15_RetainAllOrNothing ==
    call.op = "retain" =>
        /\ (\A i \in 1..Len(prev) : call.ds[i].keep) =>
              /\ LenOf(storage) = LenOf(prev)
              /\ \A i \in 1..Len(prev) :
                    storage[i] = [k |-> prev[i].k, v |-> call.ds[i].v]
              /\ (\A i \in 1..Len(prev) : call.ds[i].v = prev[i].v) => storage = prev
        /\ (\A i \in 1..Len(prev) : ~call.ds[i].keep) =>
              /\ storage = << >>
              /\ LenOf(storage) = 0

\* retain with an always-false predicate ran on a map of three pairs.
C15_Witness ==
    /\ call.op = "retain" /\ Len(prev) = 3
    /\ \A i \in 1..3 : ~call.ds[i].keep

\* C16: whenever a drain handle is dropped, however many of the n drained
\* pairs were taken from it (0..n), the map is empty: len() is 0 and a new
\* iteration yields nothing at once.  This holds for every drain of the
\* run, the first as well as one made after the map was filled again.
C16_DrainLeavesEmpty ==
    (call.op = "iter_drop" /\ call.kind = "Drain") =>
        /\ call.taken <= call.n
        /\ storage = << >>
        /\ LenOf(storage) = 0
        /\ IterNext(NewIter("Iter", storage, iter.drains), storage).ret = None

\* A second drain of a refilled map, dropped after some but not all of its
\* pairs were taken.
C16_Witness ==
    /\ call.op = "iter_drop" /\ call.kind = "Drain"
    /\ call.taken > 0 /\ call.taken < call.n
    /\ iter.drains > 1

\* The number of items the live handle has yielded.
Yielded == Len(iter.fronts) + Len(iter.backs)

\* C17: for a live iterator of any kind over n pairs, after any interleaving
\* of next() and next_back(): the positions next() yielded ascend, those
\* next_back() yielded descend, no position was yielded twice, len() is
\* n minus the number of yields, a call that yields gives the item of the
\* pair at its position, and a call returns none only when all n pairs
\* were yielded (and then always, as no position can be yielded again).
C17_DoubleEndedExactSize ==
    iter.kind # "None" =>
        /\ \A a, b \in 1..Len(iter.fronts) :
               a < b => iter.fronts[a] < iter.fronts[b]
        /\ \A a, b \in 1..Len(iter.backs) :
               a < b => iter.backs[a] > iter.backs[b]
        /\ \A a \in 1..Len(iter.fronts), b \in 1..Len(iter.backs) :
               iter.fronts[a] # iter.backs[b]
        /\ \A a \in 1..Len(iter.fronts) : iter.fronts[a] \in 1..iter.n
        /\ \A b \in 1..Len(iter.backs) : iter.backs[b] \in 1..iter.n
        /\ IterLen(iter) = iter.n - Yielded
        /\ call.op \in {"next", "next_back"} =>
               /\ ret = None => Yielded = iter.n
               /\ ret # None =>
                      /\ ret = Some(ItemOf(iter.kind, iter.items[idx]))
                      /\ call.op = "next" =>
                             iter.fronts[Len(iter.fronts)] = idx
                      /\ call.op = "next_back" =>
                             iter.backs[Len(iter.backs)] = idx

\* Three pairs yielded from both ends, next_back() twice, then a call that
\* returns none.
C17_Witness ==
    /\ iter.kind # "None" /\ iter.n = 3
    /\ Len(iter.fronts) = 1 /\ Len(iter.backs) = 2
    /\ call.op = "next_back" /\ ret = None

\* C18: while an iter_mut() handle lives and when it is dropped, whatever
\* was stored through its items, the map holds the same keys at the same
\* positions and has the same length as when the handle was made; a map
\* of unique keys still has unique keys.
C18_IterMutChangesOnlyValues ==
    /\ iter.kind = "IterMut" =>
           /\ LenOf(storage) = iter.n
           /\ \A i \in 1..iter.n : storage[i].k = iter.items[i].k
           /\ Unique(iter.items) => Unique(storage)
    /\ (call.op = "iter_drop" /\ call.kind = "IterMut") =>
           /\ LenOf(storage) = call.n
           /\ \A i \in 1..call.n : storage[i].k = call.items[i].k
           /\ Unique(call.items) => Unique(storage)
    /\ call.op = "store" =>
           /\ LenOf(storage) = LenOf(prev)
           /\ \A i \in 1..Len(prev) : storage[i].k = prev[i].k

\* An iter_mut() handle was dropped after two values were changed through it.
C18_Witness ==
    /\ call.op = "iter_drop" /\ call.kind = "IterMut"
    /\ call.n > 1
    /\ storage[1].v # call.items[1].v
    /\ storage[2].v # call.items[2].v

\* What a map holds, without the order: the (key, value) pairs.
Content(s) == { << s[i].k.id, s[i].v >> : i \in 1..Len(s) }

\* Same length, and every key of a maps to an equal value in b.
SameMapping(a, b) ==
    /\ LenOf(a) = LenOf(b)
    /\ \A i \in 1..Len(a) : Get(b, Borrow(a[i].k)) = Get(a, Borrow(a[i].k))

\* a with the value at position i changed to w.
WithValue(a, i, w) == [a EXCEPT ![i].v = w]

\* C19: a == b is true exactly when a and b have the same length and every
\* key of a maps to an equal value in b; two maps that hold the same pairs
\* under distinct keys, in whatever order they were inserted, are equal;
\* and when a == b, changing one value of a or removing one key of a makes
\* the two unequal, compared either way round.
C19_EqIsSameMapping ==
    call.op = "eq" =>
        LET a == IF call.swapped THEN otherMap ELSE storage
            b == IF call.swapped THEN storage ELSE otherMap
        IN  /\ ret = Some(SameMapping(a, b))
            /\ (Unique(a) /\ Unique(b) /\ Content(a) = Content(b)) =>
                   ret = Some(TRUE)
            /\ ret = Some(TRUE) =>
                   \A i \in 1..Len(a) :
                       /\ \A w \in Vals \ {a[i].v} :
                              /\ ~EqFn(WithValue(a, i, w), b)
                              /\ ~EqFn(b, WithValue(a, i, w))
                       /\ ~EqFn(RemoveFn(a, Borrow(a[i].k)).storage, b)
                       /\ ~EqFn(b, RemoveFn(a, Borrow(a[i].k)).storage)

\* C20: map[q] returns what get(q) returns when q is present, and panics
\* with "key not found", returning nothing, when q is absent; either way
\* the map is as it was.
C20_IndexIsGetOrPanic ==
    call.op = "index" =>
        /\ storage = prev
        /\ HasKey(prev, call.q) =>
               /\ ~call.panic
               /\ ret # None
               /\ ret = Get(prev, call.q)
        /\ ~HasKey(prev, call.q) =>
               /\ call.panic
               /\ call.msg = "key not found"
               /\ ret = None
        /\ ret # None => HasKey(prev, call.q)

\* A map that holds pairs is indexed by a key it does not hold.
C20_Witness ==
    /\ call.op = "index" /\ call.panic
    /\ Len(storage) > 1
    /\ ~HasKey(storage, call.q)

\* C21: checked construction of the view (new or new_mut) succeeds exactly
\* when no two positions of the sequence hold equal keys, so always on the
\* empty sequence; when it fails it returns an error and no view; either
\* way the sequence is as it was.
C21_CheckedConstruction ==
    call.op = "borrowed_new" =>
        /\ call.ok <=> Unique(prev)
        /\ Len(prev) = 0 => call.ok
        /\ call.ok => (ret = None /\ view.kind # "None")
        /\ ~call.ok => (ret # None /\ view.kind = "None")
        /\ storage = prev

\* new_mut fails over three pairs whose first and last keys are equal.
C21_Witness ==
    /\ call.op = "borrowed_new" /\ call.mutable /\ ~call.ok
    /\ Len(storage) = 3
    /\ KeyEq(storage[1].k, storage[3].k)
    /\ ~KeyEq(storage[1].k, storage[2].k)

\* The smallest index j such that some index i < j holds an equal key.
SmallestDuplicateIndex(s) ==
    CHOOSE j \in 1..Len(s) :
        /\ \E i \in 1..(j - 1) : KeyEq(s[i].k, s[j].k)
        /\ \A m \in 1..(j - 1) : \A i \in 1..(m - 1) : ~KeyEq(s[i].k, s[m].k)

\* C22: when checked construction fails, the key reference it returns
\* designates the element at the smallest index j such that some index
\* i < j holds an equal key.
C22_ErrIsFirstDuplicate ==
    (call.op = "borrowed_new" /\ ~call.ok) =>
        idx = SmallestDuplicateIndex(prev)

\* C23: while a view lives, whatever was done through it, the sequence has
\* the length and, position by position, the keys it was made over, and no
\* two of them are equal.
C23_ViewKeepsKeys ==
    view.kind # "None" =>
        /\ Len(storage) = Len(view.keys)
        /\ \A i \in 1..Len(storage) : storage[i].k = view.keys[i]
        /\ Unique(storage)

\* A value of a three-pair sequence was changed through the view's get_mut.
C23_Witness ==
    /\ view.kind = "Mut"
    /\ call.op = "view_get_mut" /\ ret # None
    /\ Len(storage) = 3
    /\ storage # prev

\* C24: the view's get, contains_key and len return what the owned map made
\* by to_owned() returns for LinearMap's get, contains_key and len, and
\* to_owned() holds the same pairs in the same order.
C24_ViewAgreesWithOwned ==
    /\ call.op = "view_get" => ret = Get(ToOwned(prev), call.q)
    /\ call.op = "view_contains_key" =>
           ret = Some(ContainsKey(ToOwned(prev), call.q))
    /\ call.op = "view_len" => ret = Some(LenOf(ToOwned(prev)))
    /\ call.op = "view_to_owned" =>
           /\ Len(ret[1]) = Len(storage)
           /\ \A i \in 1..Len(storage) : ret[1][i] = storage[i]
           /\ \A q \in KeyIds :
                  /\ BorrowedGet(storage, q) = Get(ret[1], q)
                  /\ BorrowedContainsKey(storage, q) = ContainsKey(ret[1], q)
           /\ BorrowedLen(storage) = LenOf(ret[1])

\* get through the view finds the value of the first of three pairs.
C24_Witness ==
    /\ call.op = "view_get" /\ ret # None
    /\ Len(storage) = 3
    /\ Borrow(storage[1].k) = call.q

\* C25: in a map changed by insert alone, the stored keys are in the order
\* of their first insertion; as_slice() returns the pairs in that order,
\* the j-th item of an iteration is the pair of the j-th key inserted, and
\* an insert of a key already stored leaves every key where it was.
C25_InsertionOrder ==
    /\ IdSeq(storage) = order
    /\ call.op = "as_slice" =>
           /\ ret # None
           /\ IdSeq(ret[1]) = order
           /\ ret[1] = storage
    /\ (iter.kind = "Iter" /\ call.op = "next" /\ ret # None) =>
           /\ ret[1].k.id = order[Len(iter.fronts)]
           /\ ret[1] = storage[Len(iter.fronts)]
    /\ (call.op = "insert" /\ HasKey(prev, call.key.id)) =>
           /\ Len(storage) = Len(prev)
           /\ \A i \in 1..Len(prev) : storage[i].k = prev[i].k

\* A key that is not the last one stored was inserted again.
C25_Witness ==
    /\ call.op = "insert" /\ Len(storage) = 3
    /\ HasKey(prev, call.key.id)
    /\ storage[1].k.id = call.key.id
    /\ storage[1].v # prev[1].v

\* The position of the last pair of kvs whose key has this id.
LastIndexOf(kvs, id) ==
    CHOOSE i \in 1..Len(kvs) :
        /\ kvs[i].k.id = id
        /\ \A j \in (i + 1)..Len(kvs) : kvs[j].k.id # id

\* C26: a map built from a sequence of pairs by extend on a new map,
\* collect, linear_map! or deserialization holds, for every key of the
\* sequence, the value of the key's last occurrence, and its len() is the
\* number of distinct keys of the sequence (for extend on a map that holds
\* pairs already: of the sequence and the map together).
C26_BuildLastWins ==
    call.op \in {"extend", "from_iter", "macro", "deserialize"} =>
        /\ \A i \in 1..Len(call.items) :
               Get(storage, Borrow(call.items[i].k)) =
                   Some(call.items[LastIndexOf(call.items, call.items[i].k.id)].v)
        /\ call.op # "extend" =>
               LenOf(storage) = Cardinality(Ids(call.items))
        /\ call.op = "extend" =>
               LenOf(storage) = Cardinality(Ids(prev) \cup Ids(call.items))

\* linear_map! over three pairs whose first and last keys are equal and
\* whose values differ.
C26_Witness ==
    /\ call.op = "macro" /\ Len(call.items) = 3
    /\ call.items[1].k.id = call.items[3].k.id
    /\ call.items[1].k.id # call.items[2].k.id
    /\ call.items[1].v # call.items[3].v
    /\ LenOf(storage) = 2

\* C27: the map decoded from a map's encoding equals the map, whichever
\* of the two is on the left: it has the same length and the same value
\* for every key.
C27_SerdeRoundTrip ==
    call.op = "ser_de" =>
        /\ EqFn(otherMap, storage)
        /\ EqFn(storage, otherMap)
        /\ LenOf(otherMap) = LenOf(storage)
        /\ \A q \in KeyIds : Get(otherMap, q) = Get(storage, q)

\* C28: after reserve(additional) or reserve_exact(additional) on a map of
\* length L, capacity() is at least L + additional; after with_capacity(n)
\* it is at least n; and an insert of a new key into a map whose len() is
\* below its capacity() leaves capacity() as it is.
C28_Capacity ==
    /\ [](/\ call.op \in {"reserve", "reserve_exact"} =>
                 /\ capacity >= LenOf(prev) + call.additional
                 /\ storage = prev
          /\ call.op = "with_capacity" =>
                 /\ capacity >= call.n
                 /\ LenOf(storage) = 0
          /\ call.op = "capacity" => ret = Some(capacity)
          /\ capacity >= LenOf(storage))
    /\ [][(/\ call'.op = "insert"
           /\ LenOf(storage') = LenOf(storage) + 1
           /\ LenOf(storage) < capacity)
          => capacity' = capacity]_vars

\* reserve had to grow a map that holds pairs.
C28_Witness ==
    /\ call.op = "reserve"
    /\ LenOf(storage) > 1
    /\ call.additional > 1
    /\ capacity > call.before

\* C29: set.insert(x) returns true exactly when x was not in the set, and
\* then len() is one more and x is in the set; when it returns false the
\* set is as it was.  set.remove(x) returns true exactly when x was in the
\* set.
C29_SetInsertRemove ==
    /\ call.op = "set_insert" =>
           /\ ret = Some(~HasKey(prev, call.value.id))
           /\ ret = Some(TRUE) =>
                  /\ LenOf(storage) = LenOf(prev) + 1
                  /\ SetContains(storage, Borrow(call.value))
           /\ ret = Some(FALSE) => storage = prev
    /\ call.op = "set_remove" => ret = Some(HasKey(prev, call.q))

\* An element equal to a stored one, but another object, was inserted.
C29_Witness ==
    /\ call.op = "set_insert" /\ ret = Some(FALSE)
    /\ LenOf(storage) > 1
    /\ \E i \in 1..Len(storage) :
           /\ KeyEq(storage[i].k, call.value)
           /\ storage[i].k # call.value

\* How often an element with this id is in the sequence of elements.
Count(elts, id) == Cardinality({ i \in 1..Len(elts) : elts[i].id = id })

\* C30: for two sets a and b, a.union(b) yields exactly once every element
\* that is in a or in b, and a.intersection(b), a.difference(b) and
\* a.symmetric_difference(b) yield exactly once every element of the
\* intersection, the difference and the symmetric difference, and nothing
\* else.
C30_SetAlgebra ==
    call.op \in {"union", "intersection", "difference", "symmetric_difference"} =>
        LET a == Ids(IF call.swapped THEN otherMap ELSE storage)
            b == Ids(IF call.swapped THEN storage ELSE otherMap)
            expected == CASE call.op = "union" -> a \cup b
                          [] call.op = "intersection" -> a \cap b
                          [] call.op = "difference" -> a \ b
                          [] call.op = "symmetric_difference" ->
                                 (a \ b) \cup (b \ a)
        IN  \A id \in KeyIds :
                Count(ret[1], id) = IF id \in expected THEN 1 ELSE 0

\* The live handles that can write the storage: an entry, a mutable
\* iterator or drain, a mutable borrowed view.
MutableViews ==
    (IF entry.kind # "None" THEN 1 ELSE 0)
    + (IF iter.kind \in {"IterMut", "Drain"} THEN 1 ELSE 0)
    + (IF view.kind = "Mut" THEN 1 ELSE 0)

\* The live handles that can only read it.
ReadOnlyViews ==
    readers
    + (IF iter.kind \in {"Iter", "Keys", "Values"} THEN 1 ELSE 0)
    + (IF view.kind = "Ref" THEN 1 ELSE 0)

\* C31: at most one mutable view of the storage is live at any time, and
\* while one is live no read-only view is.
C31_OneMutableView ==
    /\ MutableViews <= 1
    /\ MutableViews = 1 => ReadOnlyViews = 0

\* Several read-only iterators live together over a map that an entry
\* handle has written before.
C31_Witness ==
    /\ ReadOnlyViews > 2
    /\ Len(storage) > 0

\* C32: retain calls the predicate on pairs of the original storage only,
\* at ascending original indices, so on each of them at most once.
C32_RetainVisitsInOrder ==
    call.op = "retain" =>
        /\ \A k \in 1..Len(call.calls) :
               /\ call.calls[k].pos \in 1..Len(prev)
               /\ call.calls[k].pair = prev[call.calls[k].pos]
        /\ \A k, l \in 1..Len(call.calls) :
               k < l => call.calls[k].pos < call.calls[l].pos

\* retain rejected the first of three pairs and kept the other two, so the
\* second and third were moved down during the scan.
C32_Witness ==
    /\ call.op = "retain" /\ Len(prev) = 3
    /\ ~call.ds[1].keep /\ call.ds[2].keep /\ call.ds[3].keep
    /\ Len(call.calls) = 3

\* The drop events among the first n events of a run of retain.
DropsBefore(events, n) ==
    Cardinality({ d \in 1..(n - 1) : events[d].ev = "drop" })

\* The pairs retain rejects, each with the value the predicate left in it.
Rejected(s, ds) == { [k |-> s[i].k, v |-> ds[i].v] : i \in { j \in 1..Len(s) : ~ds[j].keep } }

\* C33 as claimed: when the predicate is called on a pair, every pair before
\* it that the predicate rejected has been dropped already.
C33_DropsWhenSkipped ==
    call.op = "retain" =>
        \A e \in 1..Len(call.events) :
            call.events[e].ev = "call" =>
                DropsBefore(call.events, e)
                    = Cardinality({ i \in 1..(call.events[e].pos - 1) : ~call.ds[i].keep })

\* C33 as amended: retain drops no pair before the predicate has been called
\* on every pair; the rejected pairs, and no others, are dropped after the
\* scan.
C33_DropsAfterScan ==
    call.op = "retain" =>
        /\ \A e \in 1..Len(call.events) :
               call.events[e].ev = "call" => DropsBefore(call.events, e) = 0
        /\ DropsBefore(call.events, Len(call.events) + 1)
               = Cardinality({ i \in 1..Len(prev) : ~call.ds[i].keep })
        /\ \A e \in 1..Len(call.events) :
               call.events[e].ev = "drop" =>
                   call.events[e].pair \in Rejected(prev, call.ds)

\* retain rejected the first and the last of three pairs: both were dropped
\* after the three calls of the predicate.
C33_Witness ==
    /\ call.op = "retain" /\ Len(prev) = 3
    /\ ~call.ds[1].keep /\ call.ds[2].keep /\ ~call.ds[3].keep
    /\ Len(call.events) = 5
    /\ call.events[4].ev = "drop" /\ call.events[5].ev = "drop"

\* C34: after insert(k, v) and after remove(k), get(k') returns for every
\* key k' other than k what it returned before the call.
C34_OtherKeysUntouched ==
    /\ call.op = "insert" =>
           \A q \in KeyIds \ {Borrow(call.key)} : Get(storage, q) = Get(prev, q)
    /\ call.op = "remove" =>
           \A q \in KeyIds \ {call.q} : Get(storage, q) = Get(prev, q)

\* remove took the first of three pairs out, and the last pair was moved
\* into its place.
C34_Witness ==
    /\ call.op = "remove" /\ idx = 1
    /\ Len(prev) = 3 /\ Len(storage) = 2
    /\ storage[1] = prev[3]

\* C35: a map is equal to itself, and a == b returns what b == a returns.
C35_EqIsEquivalence ==
    /\ call.op = "eq_self" => ret = Some(TRUE)
    /\ call.op = "eq" =>
           LET a == IF call.swapped THEN otherMap ELSE storage
               b == IF call.swapped THEN storage ELSE otherMap
           IN  ret = Some(EqFn(b, a))

\* C36: as long as an Occupied entry made by entry(k) lives, its index is
\* within the storage and the key stored there equals k; get, get_mut,
\* into_mut and insert on it leave every pair but that one as it was, and
\* remove takes that pair out and no other.
C36_OccupiedStaysValid ==
    /\ entry.kind = "Occupied" =>
           /\ entry.index \in 1..Len(storage)
           /\ KeyEq(storage[entry.index].k, call.key)
    /\ call.op \in {"occ_get", "occ_get_mut", "occ_into_mut", "occ_insert", "occ_remove"} =>
           /\ idx \in 1..Len(prev)
           /\ KeyEq(prev[idx].k, call.key)
    /\ call.op \in {"occ_get", "occ_get_mut", "occ_into_mut", "occ_insert"} =>
           /\ Len(storage) = Len(prev)
           /\ storage[idx].k = prev[idx].k
           /\ \A j \in 1..Len(prev) : j # idx => storage[j] = prev[j]
    /\ call.op = "occ_remove" =>
           /\ Len(storage) = Len(prev) - 1
           /\ \A j \in 1..Len(prev) :
                  j # idx => \E i \in 1..Len(storage) : storage[i] = prev[j]

\* A handle on the second of three pairs is still live after a write through
\* get_mut that followed an insert on it.
C36_Witness ==
    /\ entry.kind = "Occupied" /\ entry.index = 2 /\ Len(storage) = 3
    /\ call.op = "occ_get_mut"
    /\ storage[2].v # prev[2].v

\* C37: a set holds each element at most once, so that len() is the number
\* of distinct elements, whichever operation made it (the conversion from a
\* plain Vec of elements included).
C37_SetElementsUnique ==
    /\ Unique(storage) /\ Unique(otherMap)
    /\ LenOf(storage) = Cardinality(Ids(storage))

\* C38: entry(k), reads through an Occupied handle and the drop of a handle
\* each leave the map as it was, so a handle that is made and given up
\* without insert or remove leaves the same pairs in the same order, and
\* the same len().
C38_UnresolvedEntryLeavesMap ==
    [][call'.op \in {"entry", "occ_get", "entry_drop"} =>
           /\ storage' = storage
           /\ LenOf(storage') = LenOf(storage)]_vars

\* A Vacant handle for a key the two-pair map does not hold was dropped
\* without insert.
C38_Witness ==
    /\ call.op = "entry_drop"
    /\ ~HasKey(storage, call.key.id)
    /\ Len(storage) = 2
    /\ storage = prev

====
